---- MODULE Spec2Model ----
(***************************************************************************)
(* Transport layer of the cothority network package: the virtual           *)
(* (in-process) transport LocalContext / LocalConn / connQueue /           *)
(* LocalListener, modelled as a state machine of goroutines that call its  *)
(* operations concurrently.  Every step that runs under one mutex is one   *)
(* action; an operation that releases its lock in the middle (LocalConn    *)
(* Close, connQueue Pop around Wait, LocalListener Listen) is split at     *)
(* those points.                                                           *)
(***************************************************************************)
EXTENDS Integers, Sequences, FiniteSets, TLC

(* ------------------------------ bounds -------------------------------- *)
\* number of operation calls (Connect, Send, Receive, Close, Listening, ...)
\* made in one behaviour
MaxOps == 5
\* Send calls made on the TCPConn in one behaviour
MaxFrames == 2
\* connections the accept loop of the TCPListener takes in one behaviour
MaxAccepts == 2

\* goroutines that may be inside a blocking / multi-step operation
Procs == {"g1", "g2", "g3"}
\* LocalListener objects that may be constructed
Listeners == {"L1", "L2"}
\* Local-type addresses, and one address of the socket type
LocalAddrs == {"A", "B"}
TcpAddr == "T"
AllAddrs == LocalAddrs \cup {TcpAddr}
\* the zero Address (field never assigned)
NoAddr == "-"

\* message bodies handed to Send: a value or a pointer to a value
Bodies == {[typ |-> "T1", val |-> "ping"], [typ |-> "T2", val |-> "pong"]}
Msgs == [ptr : BOOLEAN, elem : Bodies]

\* the nil func value a map lookup yields for a missing key
NilFn == "nil func"

\* error values
Nil == "nil"
ErrClosed == "ErrClosed"
ErrNotListening == "not listening"
ErrAlreadyListening == "already listening"
ErrWrongType == "wrong address type"

ChanIds == 1 .. (Cardinality(Listeners) + Cardinality(Procs) + 1)

VARIABLES
  queues,     \* LocalContext.queues : endpoint -> connQueue reference
  listening,  \* LocalContext.listening : Address -> accept callback
  baseUid,    \* LocalContext.baseUid
  conns,      \* the LocalConn objects created so far, in creation order
  cq,         \* the connQueue of each LocalConn: queue and isClosed
  lst,        \* the LocalListener objects
  chClosed,   \* the quit channels that have been closed
  accepted,   \* the callbacks started by `go fn(incoming)`
  pc,         \* where each goroutine is
  parg,       \* the operands of the operation a goroutine is inside
  closeDone,  \* LocalConns on which a Close() call has returned
  sent,       \* per LocalConn: the bodies its peer passed to the Sends
              \* that returned nil
  recvd,      \* per LocalConn: the packets its Receive calls returned
  nOps,       \* operation calls made so far
  last,       \* outcome of the operation step taken last
  tc,         \* the TCPConn: closed, and what happened on its socket
  frames,     \* the Send calls made on the TCPConn: length and outcome
  snd,        \* goroutine -> where it is in TCPConn.Send
  wire,       \* the bytes written to the socket, as runs of bytes
  inFrames,   \* the lengths of the frames the peer has written
  inbound,    \* the bytes of the peer the socket holds, not yet read
  rcv,        \* goroutine -> where it is in TCPConn.receive
  delivered,  \* the buffers receive has returned, in order
  tl,         \* the TCPListener: its fields, its channels and sockets
  tp,         \* goroutine -> where it is in TCPListener.Listen or Stop
  hc,         \* goroutine -> where it is in LocalHost.Connect or NewTCPConn
  lk          \* the LocalContext mutex: its holder, and the goroutines that
              \* are inside LocalContext.Send with the mutex held

\* the state of the TCPConn
connVars == <<tc, frames, snd, wire, inFrames, inbound, rcv, delivered>>

\* the state of the socket transport
tcpVars == <<tc, frames, snd, wire, inFrames, inbound, rcv, delivered, tl,
             tp>>

\* the state of the virtual transport
localVars == <<queues, listening, baseUid, conns, cq, lst, chClosed, accepted,
               pc, parg, closeDone, sent, recvd, nOps, last>>

vars == <<queues, listening, baseUid, conns, cq, lst, chClosed, accepted,
          pc, parg, closeDone, sent, recvd, nOps, last, tc, frames, snd,
          wire, inFrames, inbound, rcv, delivered, tl, tp, hc, lk>>

(* ------------------------------ data ---------------------------------- *)
\* Packet{MsgType, Msg, From}
Packet(t, m, f) == [MsgType |-> t, Msg |-> m, From |-> f]

EmptyApplicationPacket == Packet("none", "none", NoAddr)

\* TypeFromData: the type tag registered for a body
TypeFromData(body) == body.typ

\* reflect.ValueOf(msg); if Kind is Ptr then Elem(): the value pointed to
Deref(msg) == msg.elem

ConnType(addr) == IF addr = TcpAddr THEN "PlainTCP" ELSE "Local"

\* outcome record of one operation step
\* op: the operation; c: the LocalConn it used or returned (0: none);
\* a: the address or listener it was about; err: the error returned;
\* pkt: the packet sent or received; app: the packet was appended to a queue;
\* after: the call began after a Close() of the pair had returned;
\* pend: how many packets the queue held when Pop decided
Ret(op, c, a, err, pkt, app, after, pend) ==
  [op |-> op, c |-> c, a |-> a, err |-> err, pkt |-> pkt, app |-> app,
   after |-> after, pend |-> pend]

Step(op, c, a) == Ret(op, c, a, Nil, EmptyApplicationPacket, FALSE, FALSE, 0)

NoArg == [c |-> 0, after |-> FALSE, l |-> NoAddr, ch |-> 0,
          cancelled |-> FALSE, stopped |-> FALSE]

ConnIds == DOMAIN conns

\* the LocalConn created by the same Connect call (outgoing 2k-1, incoming 2k)
Peer(c) == IF c % 2 = 1 THEN c + 1 ELSE c - 1

\* map update and delete
MapPut(m, k, v) == [x \in DOMAIN m \cup {k} |-> IF x = k THEN v ELSE m[x]]
MapDel(m, k) == [x \in DOMAIN m \ {k} |-> m[x]]

(* --------------------------- LocalContext ----------------------------- *)
\* variant of endpoint: the uid is left out of the key
endpoint_noUid(addr, uid) == <<addr, 0>>

\* endpoint{addr, uid}
endpoint(addr, uid) == <<addr, uid>>

\* newConnQueue
newConnQueue == [queue |-> <<>>, isClosed |-> FALSE]

\* newLocalConn(ctx, local, remote)
newLocalConn(local, remote) == [local |-> local, remote |-> remote]

\* LocalContext.IsListening
IsListening(remote) == remote \in DOMAIN listening

\* LocalContext.Len
Len_queues == Cardinality(DOMAIN queues)

(* ----------------------------- connQueue ------------------------------ *)
\* goroutines parked in c.Wait() of the connQueue q
Waiters(q) == {p \in Procs : pc[p] = "popWait" /\ parg[p].c = q}

\* sync.Cond.Signal wakes one parked goroutine, if there is any
SignalChoices(q) == IF Waiters(q) = {} THEN {"none"} ELSE Waiters(q)

Wake(f, w) == IF w = "none" THEN f ELSE [f EXCEPT ![w] = "popWoken"]

\* variant of Push: the packet is put at the head of the queue
Push_prepend(q, p) ==
  IF q.isClosed THEN q ELSE [q EXCEPT !.queue = <<p>> \o @]

\* variant of Push: isClosed is not tested
Push_closedToo(q, p) == [q EXCEPT !.queue = Append(@, p)]

\* connQueue.Push: the queue after the call
Push(q, p) == IF q.isClosed THEN q ELSE [q EXCEPT !.queue = Append(@, p)]

\* connQueue.Push reaches c.Signal() only when the queue is open
PushSignals(q) == ~q.isClosed

\* connQueue.Close: the queue after the call
CloseQueue(q) == [q EXCEPT !.isClosed = TRUE]

\* connQueue.Pop once it holds the lock: what the loop and the tests decide
PopOutcome(q) ==
  IF Len(q.queue) = 0
    THEN IF q.isClosed THEN "closed" ELSE "wait"
    ELSE IF q.isClosed THEN "closed" ELSE "item"

(* ------------------------- LocalContext.Connect ----------------------- *)
\* variant of ConnectAllowed: ok is not tested
ConnectAllowed_always(remote) == TRUE

\* `fn, ok := ccc.listening[remote]`: ok
ConnectAllowed(remote) == remote \in DOMAIN listening

\* variant of AcceptFn: the callback of the first listener, whoever listens
AcceptFn_first(remote) == "L1"

\* `fn, ok := ccc.listening[remote]`: fn
AcceptFn(remote) ==
  IF remote \in DOMAIN listening THEN listening[remote] ELSE NilFn

\* variant of NextUid: the counter stays
NextUid_same(uid) == uid

\* ccc.baseUid++
NextUid(uid) == uid + 1

\* variant of AfterGo: a plain call `fn(conn)` keeps the caller inside fn
AfterGo_call(next) == "fn"

\* where the goroutine that runs `go fn(conn)` is once it has run it: at
\* its next statement, fn running in a goroutine of its own
AfterGo(next) == next

\* LocalContext.Connect, as a call made by any caller
\* a Connect that leaves the queue of the incoming endpoint to be registered
\* by the callback
RegisterPair_outgoingOnly(outEndpoint, outgoing, incEndpoint, incoming) ==
  MapPut(queues, outEndpoint, outgoing)

\* Connect registers the queues of both endpoints before `go fn(incoming)`
RegisterPair(outEndpoint, outgoing, incEndpoint, incoming) ==
  MapPut(MapPut(queues, outEndpoint, outgoing), incEndpoint, incoming)

ContextConnect(local, remote) ==
  /\ UNCHANGED tcpVars
  /\ nOps < MaxOps
  /\ nOps' = nOps + 1
  /\ IF ~ConnectAllowed(remote)
    THEN /\ last' = Ret("Connect", 0, remote, ErrNotListening,
                        EmptyApplicationPacket, FALSE, FALSE, 0)
         /\ UNCHANGED <<queues, listening, baseUid, conns, cq, lst, chClosed,
                        accepted, pc, parg, closeDone, sent, recvd>>
    ELSE /\ LET fn == AcceptFn(remote)
                outEndpoint == endpoint(local, baseUid)
                incEndpoint == endpoint(remote, NextUid(baseUid))
                outgoing == Len(conns) + 1
                incoming == Len(conns) + 2
            IN /\ baseUid' = NextUid(NextUid(baseUid))
               /\ conns' = conns \o <<newLocalConn(outEndpoint, incEndpoint),
                                      newLocalConn(incEndpoint, outEndpoint)>>
               /\ cq' = cq \o <<newConnQueue, newConnQueue>>
               /\ sent' = sent \o << <<>>, <<>> >>
               /\ recvd' = recvd \o << <<>>, <<>> >>
               /\ queues' = RegisterPair(outEndpoint, outgoing,
                                         incEndpoint, incoming)
               /\ accepted' = Append(accepted, [fn |-> fn, conn |-> incoming,
                                             begun |-> FALSE, early |-> 0,
                                             done |-> FALSE])
               /\ last' = Step("Connect", outgoing, remote)
         /\ UNCHANGED <<listening, lst, chClosed, pc, parg, closeDone>>

\* NewLocalConnWithContext(ctx, local, remote) called directly
Connect(local, remote) ==
  /\ ContextConnect(local, remote)
  /\ UNCHANGED <<hc, lk>>

\* the goroutine of `go fn(incoming)` of the i-th successful Connect is
\* scheduled and fn begins to run; early keeps how many packets had been
\* sent to incoming by then
CallbackBegin(i) ==
  /\ i \in DOMAIN accepted
  /\ ~accepted[i].begun
  /\ accepted' = [accepted EXCEPT ![i].begun = TRUE,
                                  ![i].early = Len(sent[accepted[i].conn])]
  /\ UNCHANGED <<queues, listening, baseUid, conns, cq, lst, chClosed, pc,
                 parg, closeDone, sent, recvd, nOps, last>>
  /\ UNCHANGED tcpVars
  /\ UNCHANGED <<hc, lk>>

\* the accept callback started by the i-th successful Connect returns
CallbackReturn(i) ==
  /\ i \in DOMAIN accepted
  /\ accepted[i].begun
  /\ ~accepted[i].done
  /\ accepted' = [accepted EXCEPT ![i].done = TRUE]
  /\ UNCHANGED <<queues, listening, baseUid, conns, cq, lst, chClosed, pc,
                 parg, closeDone, sent, recvd, nOps, last>>
  /\ UNCHANGED tcpVars
  /\ UNCHANGED <<hc, lk>>

(* --------------------------- LocalConn.Send --------------------------- *)
\* the Packet LocalConn.Send builds from msg
SendPacket(msg) == Packet(TypeFromData(Deref(msg)), Deref(msg), NoAddr)

\* the endpoint LocalConn.Send hands to LocalContext.Send
SendTarget(c) == conns[c].remote

\* LocalConn.Send and the LocalContext.Send it calls, as one step
ContextSend(c, msg) ==
  /\ UNCHANGED tcpVars
  /\ nOps < MaxOps
  /\ nOps' = nOps + 1
  /\ LET nm == SendPacket(msg)
         e == SendTarget(c)
         after == closeDone \cap {c, Peer(c)} # {}
     IN IF e \notin DOMAIN queues
          THEN /\ last' = Ret("Send", c, NoAddr, ErrClosed, nm, FALSE, after, 0)
               /\ UNCHANGED <<cq, pc, sent>>
          ELSE LET q == queues[e]
                   newq == Push(cq[q], nm)
               IN /\ cq' = [cq EXCEPT ![q] = newq]
                  /\ \E w \in (IF PushSignals(cq[q]) THEN SignalChoices(q)
                                                     ELSE {"none"}) :
                       pc' = Wake(pc, w)
                  /\ sent' = [sent EXCEPT ![Peer(c)] = Append(@, msg.elem)]
                  /\ last' = Ret("Send", c, NoAddr, Nil, nm,
                                 Len(newq.queue) = Len(cq[q].queue) + 1,
                                 after, 0)
  /\ UNCHANGED <<queues, listening, baseUid, conns, lst, chClosed, accepted,
                 parg, closeDone, recvd>>

\* LocalConn.Send called by any caller
Send(c, msg) ==
  /\ ContextSend(c, msg)
  /\ UNCHANGED <<hc, lk>>

(* --------------------------- LocalConn.Close -------------------------- *)
\* first half: cc.connQueue.Close()
CloseBegin(p, c) ==
  /\ UNCHANGED tcpVars
  /\ UNCHANGED <<hc, lk>>
  /\ pc[p] = "idle"
  /\ nOps < MaxOps
  /\ nOps' = nOps + 1
  /\ cq' = [cq EXCEPT ![c] = CloseQueue(@)]
  /\ \E w \in SignalChoices(c) :
       pc' = [Wake(pc, w) EXCEPT ![p] = "closing"]
  /\ parg' = [parg EXCEPT ![p] = [NoArg EXCEPT
                 !.c = c, !.after = closeDone \cap {c, Peer(c)} # {}]]
  /\ last' = Ret("CloseBegin", c, NoAddr, Nil, EmptyApplicationPacket, FALSE,
                 closeDone \cap {c, Peer(c)} # {}, 0)
  /\ UNCHANGED <<queues, listening, baseUid, conns, lst, chClosed, accepted,
                 closeDone, sent, recvd>>

\* variant of CloseRegistry: only the conn's own endpoint is deleted
CloseRegistry_localOnly(conn) == MapDel(queues, conn.local)

\* variant of CloseRegistry: the conn's own endpoint stays registered
CloseRegistry_remoteOnly(conn) == MapDel(queues, conn.remote)

\* variant of CloseRegistry: the remote endpoint is deleted only when the
\* conn's own endpoint was still there
CloseRegistry_half(conn) ==
  IF conn.local \in DOMAIN queues
    THEN MapDel(queues, conn.local)
    ELSE MapDel(queues, conn.remote)

\* LocalContext.Close: the registry after the call
CloseRegistry(conn) ==
  IF conn.remote \in DOMAIN queues
    THEN MapDel(MapDel(queues, conn.local), conn.remote)
    ELSE MapDel(queues, conn.local)

\* variant of CloseRemote: the remote queue is never closed
CloseRemote_none(conn) == 0

\* LocalContext.Close: the connQueue it closes, 0 when it finds none
CloseRemote(conn) ==
  IF conn.remote \in DOMAIN MapDel(queues, conn.local)
    THEN queues[conn.remote]
    ELSE 0

\* second half: cc.ctx.Close(cc), then return nil
CloseEnd(p) ==
  /\ UNCHANGED tcpVars
  /\ UNCHANGED <<hc, lk>>
  /\ pc[p] = "closing"
  /\ LET c == parg[p].c
         r == CloseRemote(conns[c])
     IN /\ queues' = CloseRegistry(conns[c])
        /\ IF r = 0
             THEN /\ cq' = cq
                  /\ pc' = [pc EXCEPT ![p] = "idle"]
             ELSE /\ cq' = [cq EXCEPT ![r] = CloseQueue(@)]
                  /\ \E w \in SignalChoices(r) :
                       pc' = [Wake(pc, w) EXCEPT ![p] = "idle"]
        /\ closeDone' = closeDone \cup {c}
        /\ last' = Ret("Close", c, NoAddr, Nil, EmptyApplicationPacket, FALSE,
                       parg[p].after, 0)
  /\ parg' = [parg EXCEPT ![p] = NoArg]
  /\ UNCHANGED <<listening, baseUid, conns, lst, chClosed, accepted, sent,
                 recvd, nOps>>

(* -------------------------- LocalConn.Receive ------------------------- *)
\* connQueue.Pop from the point where it holds the lock
PopBody(p, c, after) ==
  LET q == cq[c]
      o == PopOutcome(q)
  IN /\ CASE o = "wait" ->
               /\ pc' = [pc EXCEPT ![p] = "popWait"]
               /\ parg' = [parg EXCEPT ![p] = [NoArg EXCEPT
                              !.c = c, !.after = after,
                              !.cancelled = pc[p] = "popWoken"
                                              /\ parg[p].cancelled]]
               /\ last' = Ret("PopWait", c, NoAddr, Nil,
                              EmptyApplicationPacket, FALSE, after, 0)
               /\ UNCHANGED <<cq, recvd>>
          [] o = "closed" ->
               /\ pc' = [pc EXCEPT ![p] = "idle"]
               /\ parg' = [parg EXCEPT ![p] = NoArg]
               /\ last' = Ret("Receive", c, NoAddr, ErrClosed,
                              EmptyApplicationPacket, FALSE, after,
                              Len(q.queue))
               /\ UNCHANGED <<cq, recvd>>
          [] o = "item" ->
               /\ pc' = [pc EXCEPT ![p] = "idle"]
               /\ parg' = [parg EXCEPT ![p] = NoArg]
               /\ cq' = [cq EXCEPT ![c].queue = Tail(@)]
               /\ recvd' = [recvd EXCEPT ![c] = Append(@, Head(q.queue))]
               /\ last' = Ret("Receive", c, NoAddr, Nil, Head(q.queue),
                              FALSE, after, Len(q.queue))
     /\ UNCHANGED <<queues, listening, baseUid, conns, lst, chClosed,
                    accepted, closeDone, sent>>

\* LocalConn.Receive: cc.Pop() takes the lock
Receive(p, c) ==
  /\ UNCHANGED tcpVars
  /\ UNCHANGED <<hc, lk>>
  /\ pc[p] = "idle"
  /\ nOps < MaxOps
  /\ nOps' = nOps + 1
  /\ PopBody(p, c, Peer(c) \in closeDone)

\* a goroutine woken from c.Wait() takes the lock again and re-tests
PopResume(p) ==
  /\ UNCHANGED tcpVars
  /\ UNCHANGED <<hc, lk>>
  /\ pc[p] = "popWoken"
  /\ nOps' = nOps
  /\ PopBody(p, parg[p].c, parg[p].after)

\* the caller of a blocked Receive cancels the context it passed; Receive
\* hands nothing of ctx to Pop, so the goroutine stays in c.Wait()
CancelContext(p) ==
  /\ UNCHANGED tcpVars
  /\ UNCHANGED <<hc, lk>>
  /\ pc[p] = "popWait"
  /\ ~parg[p].cancelled
  /\ parg' = [parg EXCEPT ![p].cancelled = TRUE]
  /\ last' = Step("Cancel", parg[p].c, NoAddr)
  /\ UNCHANGED <<queues, listening, baseUid, conns, cq, lst, chClosed,
                 accepted, pc, closeDone, sent, recvd, nOps>>

(* ---------------------------- LocalListener --------------------------- *)
\* quit channels some listener or some waiting Listen call still refers to
ChansInUse ==
  {lst[l].quit : l \in {x \in Listeners : lst[x].made}}
    \cup {parg[p].ch : p \in {x \in Procs : pc[x] = "listenWait"}}

\* make(chan bool): a channel nothing refers to yet
NewChan == CHOOSE ch \in ChanIds \ ChansInUse :
             \A other \in ChanIds \ ChansInUse : ch <= other

\* LocalListener.bind: the error it returns
bind(addr) ==
  IF ConnType(addr) # "Local" THEN ErrWrongType
  ELSE IF IsListening(addr) THEN ErrAlreadyListening
  ELSE Nil

\* NewLocalListenerWithContext(ctx, addr)
NewLocalListener(l, addr) ==
  /\ UNCHANGED tcpVars
  /\ UNCHANGED <<hc, lk>>
  /\ ~lst[l].made
  /\ nOps < MaxOps
  /\ nOps' = nOps + 1
  /\ LET err == bind(addr)
     IN /\ last' = Ret("NewLocalListener", 0, addr, err,
                       EmptyApplicationPacket, FALSE, FALSE, 0)
        /\ IF err = Nil
             THEN /\ lst' = [lst EXCEPT ![l] = [made |-> TRUE, addr |-> addr,
                                                listening |-> FALSE,
                                                quit |-> NewChan]]
                  /\ chClosed' = chClosed \ {NewChan}
             ELSE UNCHANGED <<lst, chClosed>>
  /\ UNCHANGED <<queues, listening, baseUid, conns, cq, accepted, pc, parg,
                 closeDone, sent, recvd>>

\* LocalContext.Listening: the registry after the call
Listening(addr, fn) == MapPut(listening, addr, fn)

\* variant of StopListening: every address is taken out of the registry
StopListening_all(addr) == [x \in {} |-> NilFn]

\* LocalContext.StopListening: the registry after the call
StopListening(addr) == MapDel(listening, addr)

\* the callback fn a test or host passes to the Listen of listener l
Callback(l) == l

\* a direct call of LocalContext.Listening(addr, fn)
ContextListening(addr, fn) ==
  /\ UNCHANGED tcpVars
  /\ UNCHANGED <<hc, lk>>
  /\ nOps < MaxOps
  /\ nOps' = nOps + 1
  /\ listening' = Listening(addr, fn)
  /\ last' = Step("Listening", 0, addr)
  /\ UNCHANGED <<queues, baseUid, conns, cq, lst, chClosed, accepted, pc,
                 parg, closeDone, sent, recvd>>

\* a direct call of LocalContext.StopListening(addr)
ContextStopListening(addr) ==
  /\ UNCHANGED tcpVars
  /\ UNCHANGED <<hc, lk>>
  /\ nOps < MaxOps
  /\ nOps' = nOps + 1
  /\ listening' = StopListening(addr)
  /\ last' = Step("StopListening", 0, addr)
  /\ UNCHANGED <<queues, baseUid, conns, cq, lst, chClosed, accepted, pc,
                 parg, closeDone, sent, recvd>>

\* LocalListener.Listen up to ll.Unlock()
ListenBegin(p, l) ==
  /\ UNCHANGED tcpVars
  /\ UNCHANGED <<hc, lk>>
  /\ pc[p] = "idle"
  /\ lst[l].made
  /\ nOps < MaxOps
  /\ nOps' = nOps + 1
  /\ lst' = [lst EXCEPT ![l].quit = NewChan, ![l].listening = TRUE]
  /\ chClosed' = chClosed \ {NewChan}
  /\ listening' = Listening(lst[l].addr, Callback(l))
  /\ pc' = [pc EXCEPT ![p] = "listenRead"]
  /\ parg' = [parg EXCEPT ![p] = [NoArg EXCEPT !.l = l]]
  /\ last' = Step("ListenBegin", 0, l)
  /\ UNCHANGED <<queues, baseUid, conns, cq, accepted, closeDone, sent,
                 recvd>>

\* `<-ll.quit` reads the field ll.quit, outside the lock
ListenReadQuit(p) ==
  /\ UNCHANGED tcpVars
  /\ UNCHANGED <<hc, lk>>
  /\ pc[p] = "listenRead"
  /\ pc' = [pc EXCEPT ![p] = "listenWait"]
  /\ parg' = [parg EXCEPT ![p].ch = lst[parg[p].l].quit]
  /\ last' = Step("ListenReadQuit", 0, parg[p].l)
  /\ UNCHANGED <<queues, listening, baseUid, conns, cq, lst, chClosed,
                 accepted, closeDone, sent, recvd, nOps>>

\* `<-ll.quit` returns once the channel is closed; Listen returns nil
ListenReturn(p) ==
  /\ UNCHANGED tcpVars
  /\ UNCHANGED <<hc, lk>>
  /\ pc[p] = "listenWait"
  /\ parg[p].ch \in chClosed
  /\ pc' = [pc EXCEPT ![p] = "idle"]
  /\ parg' = [parg EXCEPT ![p] = NoArg]
  /\ chClosed' = chClosed \cap
                   ({lst[l].quit : l \in {x \in Listeners : lst[x].made}}
                      \cup {parg[q].ch : q \in {x \in Procs \ {p} :
                                                  pc[x] = "listenWait"}})
  /\ last' = Step("Listen", 0, parg[p].l)
  /\ UNCHANGED <<queues, listening, baseUid, conns, cq, lst, accepted,
                 closeDone, sent, recvd, nOps>>

\* variant of ClosesQuit: ll.listening is not tested
ClosesQuit_always(l) == TRUE

\* `if ll.listening { close(ll.quit) }`: whether Stop closes the channel
ClosesQuit(l) == lst[l].listening

\* LocalListener.Stop
Stop(l) ==
  /\ UNCHANGED tcpVars
  /\ UNCHANGED <<hc, lk>>
  /\ lst[l].made
  /\ nOps < MaxOps
  /\ nOps' = nOps + 1
  /\ listening' = StopListening(lst[l].addr)
  /\ chClosed' = IF ClosesQuit(l) THEN chClosed \cup {lst[l].quit}
                                  ELSE chClosed
  /\ lst' = [lst EXCEPT ![l].listening = FALSE]
  /\ last' = Ret("Stop", 0, l,
                 IF ClosesQuit(l) /\ lst[l].quit \in chClosed
                   THEN "panic: close of closed channel" ELSE Nil,
                 EmptyApplicationPacket, FALSE, FALSE, 0)
  /\ parg' = [p \in Procs |->
                IF pc[p] \in {"listenRead", "listenWait"} /\ parg[p].l = l
                  THEN [parg[p] EXCEPT !.stopped = TRUE]
                  ELSE parg[p]]
  /\ UNCHANGED <<queues, baseUid, conns, cq, accepted, pc, closeDone, sent,
                 recvd>>

(* ------------------------------ TCPConn ------------------------------- *)
\* the errors of the package
ErrCanceled == "ErrCanceled"
ErrEOF == "ErrEOF"
ErrTemp == "ErrTemp"
ErrTimeout == "ErrTimeout"
ErrUnknown == "ErrUnknown"

\* an error of the net package: the markers its text holds, whether it is a
\* net.Error, and what its Temporary() and Timeout() report
NetErr(marks, isNet, temporary, timeout) ==
  [nil |-> FALSE, marks |-> marks, net |-> isNet, temporary |-> temporary,
   timeout |-> timeout]

\* the nil error of a socket call
NilErr ==
  [nil |-> TRUE, marks |-> {}, net |-> FALSE, temporary |-> FALSE,
   timeout |-> FALSE]

\* the errors a socket call may return in the model
UseOfClosed == NetErr({"use of closed"}, TRUE, FALSE, FALSE)
BrokenPipe == NetErr({"broken pipe"}, TRUE, FALSE, FALSE)
IOTimeout == NetErr({}, TRUE, FALSE, TRUE)
Refused == NetErr({}, TRUE, FALSE, FALSE)
SockErrs == {UseOfClosed, BrokenPipe, IOTimeout, Refused}

\* variant of handleError: Timeout() is asked before Temporary()
handleError_timeoutFirst(err) ==
  IF "use of closed" \in err.marks \/ "broken pipe" \in err.marks
    THEN ErrClosed
  ELSE IF "canceled" \in err.marks THEN ErrCanceled
  ELSE IF "EOF" \in err.marks THEN ErrEOF
  ELSE IF ~err.net THEN ErrUnknown
  ELSE IF err.timeout THEN ErrTimeout
  ELSE IF err.temporary THEN ErrTemp
  ELSE ErrUnknown

\* handleError
handleError(err) ==
  IF "use of closed" \in err.marks \/ "broken pipe" \in err.marks
    THEN ErrClosed
  ELSE IF "canceled" \in err.marks THEN ErrCanceled
  ELSE IF "EOF" \in err.marks THEN ErrEOF
  ELSE IF ~err.net THEN ErrUnknown
  ELSE IF err.temporary THEN ErrTemp
  ELSE IF err.timeout THEN ErrTimeout
  ELSE ErrUnknown

\* the substrings handleError looks for in err.Error()
ErrorMarks == {"use of closed", "broken pipe", "canceled", "EOF"}

\* the errors handed to handleError: any set of the substrings in the
\* text, a net.Error or not, and what Temporary() and Timeout() report
AnyErrs ==
  {NetErr(m, n, t, o) : m \in SUBSET ErrorMarks, n \in BOOLEAN,
                        t \in BOOLEAN, o \in BOOLEAN}

\* a call of handleError(err) by a caller that keeps err and the result
Classify(err) ==
  /\ last' = [op |-> "handleError", c |-> 0, a |-> NoAddr,
              err |-> handleError(err), pkt |-> EmptyApplicationPacket,
              app |-> FALSE, after |-> FALSE, pend |-> 0, arg |-> err]
  /\ UNCHANGED <<queues, listening, baseUid, conns, cq, lst, chClosed,
                 accepted, pc, parg, closeDone, sent, recvd, nOps>>
  /\ UNCHANGED tcpVars
  /\ UNCHANGED <<hc, lk>>

\* TCPConn{endpoint, conn} as NewTCPConn or the accept loop builds it;
\* sockCloses counts the calls of conn.Close(), skipped tells that a
\* Close has returned at its test of closed, and rxDeclared is the sum of
\* the size fields of the packets receive has returned
NewTCPConnState ==
  [closed |-> FALSE, sockCloses |-> 0, skipped |-> FALSE,
   sendMutex |-> "free", bTx |-> 0,
   receiveMutex |-> "free", bRx |-> 0, rxFailed |-> FALSE,
   rxDeclared |-> 0]

\* variant of TcpCloseSkips: the closed flag is not consulted
TcpCloseSkips_never(t) == FALSE

\* TCPConn.Close returns at once when closed is set
TcpCloseSkips(t) == t.closed

\* TCPConn.Close; sockErr is what conn.Close() returns
TcpClose(sockErr) ==
  /\ IF TcpCloseSkips(tc)
       THEN /\ tc' = [tc EXCEPT !.skipped = TRUE]
            /\ last' = Ret("TcpClose", 0, NoAddr, Nil, EmptyApplicationPacket,
                           FALSE, TRUE, 0)
       ELSE /\ tc' = [tc EXCEPT !.closed = TRUE, !.sockCloses = @ + 1]
            /\ last' = Ret("TcpClose", 0, NoAddr,
                           IF sockErr.nil THEN Nil ELSE handleError(sockErr),
                           EmptyApplicationPacket, FALSE, FALSE, 0)
  /\ UNCHANGED <<queues, listening, baseUid, conns, cq, lst, chClosed,
                 accepted, pc, parg, closeDone, sent, recvd, nOps>>
  /\ UNCHANGED <<frames, snd, wire, inFrames, inbound, rcv, delivered, tl,
                 tp, hc, lk>>

(* --------------------------- TCPConn.Send ----------------------------- *)
\* how many bytes are written at once on the socket
maxChunkSize == 1400

\* the lengths of the marshalled messages sent in the model: none, one
\* byte, one chunk, one chunk and a byte, two chunks and a byte
PayloadLens == {0, 1, maxChunkSize, maxChunkSize + 1, 2 * maxChunkSize + 1}

\* an error binary.Write returns, which send passes on as it is
RawNetError == "net.OpError"

\* a Send call not yet returned
Pending == "pending"

\* a goroutine outside Send
NoSend == [pc |-> "idle", f |-> 0, packetSize |-> 0, sent |-> 0, b |-> 0,
           chunk |-> 0]

\* what conn.Write may return: nil or an error; a closed socket refuses
WriteErrs(t) ==
  IF t.sockCloses > 0 THEN {UseOfClosed} ELSE {NilErr, BrokenPipe}

\* the byte count conn.Write reports for a slice of length bytes: all of
\* them, or nothing with an error, or (a short write, with or without an
\* error) all but the last
WriteCount(length, err, short) ==
  IF short /\ length > 1 THEN length - 1
  ELSE IF err.nil THEN length
  ELSE 0

\* the length prefix binary.Write puts on the socket
PrefixRun(f, packetSize) ==
  [f |-> f, kind |-> "len", lo |-> packetSize, hi |-> packetSize]

\* the bytes lo..hi of the marshalled message of Send call f
DataRun(f, lo, hi) == [f |-> f, kind |-> "data", lo |-> lo, hi |-> hi]

\* the socket after n bytes of b[off+1..] have been written to it
WriteBytes(w, f, off, n) ==
  IF n = 0 THEN w
  ELSE IF /\ Len(w) > 0
          /\ w[Len(w)].f = f /\ w[Len(w)].kind = "data"
          /\ w[Len(w)].hi = off
    THEN [w EXCEPT ![Len(w)].hi = off + n]
  ELSE Append(w, DataRun(f, off + 1, off + n))

\* variant of SendMutexFree: Send does not take the lock
SendMutexFree_noLock(t) == TRUE

\* sendMutex.Lock() goes through when nobody holds the lock
SendMutexFree(t) == t.sendMutex = "free"

\* variant of ChunkLen: all that is left is handed to one Write
ChunkLen_whole(packetSize, sentSoFar) == packetSize - sentSoFar

\* the length of the next chunk: what is left, at most maxChunkSize
ChunkLen(packetSize, sentSoFar) ==
  IF packetSize - sentSoFar > maxChunkSize
    THEN maxChunkSize
    ELSE packetSize - sentSoFar

\* a goroutine calls Send with a message that marshals to length bytes
TcpSendCall(p, length) ==
  /\ snd[p].pc = "idle"
  /\ Len(frames) < MaxFrames
  /\ frames' = Append(frames, [len |-> length, ret |-> Pending, writes |-> 0,
                               contended |-> tc.sendMutex # "free",
                               closed |-> tc.closed])
  /\ snd' = [snd EXCEPT ![p] = [NoSend EXCEPT !.pc = "lock",
                                              !.f = Len(frames) + 1,
                                              !.packetSize = length]]
  /\ UNCHANGED <<tc, wire>>
  /\ UNCHANGED <<inFrames, inbound, rcv, delivered>>
  /\ UNCHANGED <<tl, tp>>
  /\ UNCHANGED localVars
  /\ UNCHANGED <<hc, lk>>

\* Send takes the lock, marshals, and send writes the size
TcpSendLock(p, err) ==
  /\ snd[p].pc = "lock"
  /\ SendMutexFree(tc)
  /\ err \in WriteErrs(tc)
  /\ IF err.nil
       THEN /\ tc' = [tc EXCEPT !.sendMutex = p]
            /\ wire' = Append(wire, PrefixRun(snd[p].f, snd[p].packetSize))
            /\ snd' = [snd EXCEPT ![p].pc = "write"]
            /\ UNCHANGED frames
       ELSE /\ frames' = [frames EXCEPT ![snd[p].f].ret = RawNetError]
            /\ snd' = [snd EXCEPT ![p] = NoSend]
            /\ UNCHANGED <<tc, wire>>
  /\ UNCHANGED <<inFrames, inbound, rcv, delivered>>
  /\ UNCHANGED <<tl, tp>>
  /\ UNCHANGED localVars
  /\ UNCHANGED <<hc, lk>>

\* one turn of the loop of send: the test, and a chunk written or the return
TcpSendStep(p, err, short) ==
  LET me == snd[p]
      length == ChunkLen(me.packetSize, me.sent)
      n == WriteCount(length, err, short)
  IN /\ me.pc = "write"
     /\ IF me.sent < me.packetSize
          THEN /\ err \in WriteErrs(tc)
               /\ short => length > 1
               /\ wire' = WriteBytes(wire, me.f, me.b, n)
               /\ IF err.nil
                    THEN /\ snd' = [snd EXCEPT ![p].sent = @ + n,
                                               ![p].b = @ + n,
                                               ![p].chunk = length]
                         /\ frames' = [frames EXCEPT ![me.f].writes = @ + 1]
                         /\ UNCHANGED tc
                    ELSE /\ frames' = [frames EXCEPT
                                         ![me.f].ret = handleError(err),
                                         ![me.f].writes = @ + 1]
                         /\ snd' = [snd EXCEPT ![p] = NoSend]
                         /\ tc' = [tc EXCEPT !.sendMutex =
                                     IF @ = p THEN "free" ELSE @]
          ELSE /\ err.nil /\ ~short
               /\ frames' = [frames EXCEPT ![me.f].ret = Nil]
               /\ snd' = [snd EXCEPT ![p] = NoSend]
               /\ tc' = [tc EXCEPT !.bTx = @ + me.packetSize,
                                   !.sendMutex = IF @ = p THEN "free" ELSE @]
               /\ UNCHANGED wire
     /\ UNCHANGED <<inFrames, inbound, rcv, delivered>>
     /\ UNCHANGED <<tl, tp>>
     /\ UNCHANGED localVars
     /\ UNCHANGED <<hc, lk>>

(* -------------------------- TCPConn.receive --------------------------- *)
\* the payload lengths of the frames the peer writes in the model
InLens == {0, 1, 2}

\* io.EOF
EOFErr == NetErr({"EOF"}, FALSE, FALSE, FALSE)

\* a goroutine outside receive
NoRecv == [pc |-> "idle", total |-> 0, read |-> 0, buffer |-> <<>>]

\* the size field of frame f, which binary.Read takes whole
SizeField(f) == [f |-> f, kind |-> "len", i |-> 0]

\* byte i of the payload of frame f
PayloadByte(f, i) == [f |-> f, kind |-> "data", i |-> i]

\* the payload of frame f
PayloadOf(f) == [i \in 1..inFrames[f] |-> PayloadByte(f, i)]

\* what conn.Read and binary.Read may return: nil or an error
ReadErrs(t) ==
  IF t.sockCloses > 0 THEN {UseOfClosed} ELSE {NilErr, EOFErr}

\* len(b) of the slice handed to c.conn.Read: b is made with total bytes
\* and handed whole in every turn
ReadCap(total, read) == total

\* the byte counts c.conn.Read(b) may return when avail bytes are there
ReadCounts(cap, avail) == 1..(IF cap < avail THEN cap ELSE avail)

\* the value binary.Read decodes: the size the peer wrote when the bytes
\* are a size field, one of any value when they are bytes of a payload
DecodedSizes(h) == IF h.kind = "len" THEN {inFrames[h.f]} ELSE InLens

\* the peer writes a frame: the size field, then the payload
PeerWrite(length) ==
  /\ Len(inFrames) < MaxFrames
  /\ inFrames' = Append(inFrames, length)
  /\ inbound' = inbound \o <<SizeField(Len(inFrames) + 1)>>
                   \o [i \in 1..length |-> PayloadByte(Len(inFrames) + 1, i)]
  /\ UNCHANGED <<tc, frames, snd, wire, rcv, delivered>>
  /\ UNCHANGED <<tl, tp>>
  /\ UNCHANGED localVars
  /\ UNCHANGED <<hc, lk>>

\* receive takes receiveMutex
TcpRecvLock(p) ==
  /\ rcv[p].pc = "idle"
  /\ tc.receiveMutex = "free"
  /\ tc' = [tc EXCEPT !.receiveMutex = p]
  /\ rcv' = [rcv EXCEPT ![p] = [NoRecv EXCEPT !.pc = "size"]]
  /\ UNCHANGED <<frames, snd, wire, inFrames, inbound, delivered>>
  /\ UNCHANGED <<tl, tp>>
  /\ UNCHANGED localVars
  /\ UNCHANGED <<hc, lk>>

\* binary.Read(c.conn, globalOrder, &total): waits for the bytes of a size
TcpRecvSize(p, err, total) ==
  /\ rcv[p].pc = "size"
  /\ err \in ReadErrs(tc)
  /\ IF err.nil
       THEN /\ Len(inbound) > 0
            /\ total \in DecodedSizes(Head(inbound))
            /\ inbound' = Tail(inbound)
            /\ rcv' = [rcv EXCEPT ![p].pc = "read", ![p].total = total]
            /\ UNCHANGED tc
       ELSE /\ total = 0
            /\ rcv' = [rcv EXCEPT ![p] = NoRecv]
            /\ tc' = [tc EXCEPT !.receiveMutex = "free", !.rxFailed = TRUE]
            /\ UNCHANGED inbound
  /\ UNCHANGED <<frames, snd, wire, inFrames, delivered>>
  /\ UNCHANGED <<tl, tp>>
  /\ UNCHANGED localVars
  /\ UNCHANGED <<hc, lk>>

\* one turn of the loop of receive: the test, and a Read or the return
TcpRecvStep(p, err, n) ==
  LET me == rcv[p]
  IN /\ me.pc = "read"
     /\ IF me.read < me.total
          THEN /\ err \in ReadErrs(tc)
               /\ IF err.nil
                    THEN /\ n \in ReadCounts(ReadCap(me.total, me.read),
                                             Len(inbound))
                         /\ inbound' = SubSeq(inbound, n + 1, Len(inbound))
                         /\ rcv' = [rcv EXCEPT
                               ![p].buffer = @ \o SubSeq(inbound, 1, n),
                               ![p].read = @ + n]
                         /\ UNCHANGED tc
                    ELSE /\ n = 0
                         /\ rcv' = [rcv EXCEPT ![p] = NoRecv]
                         /\ tc' = [tc EXCEPT !.receiveMutex = "free",
                                             !.rxFailed = TRUE]
                         /\ UNCHANGED inbound
               /\ UNCHANGED delivered
          ELSE /\ err.nil /\ n = 0
               /\ delivered' = Append(delivered, me.buffer)
               /\ rcv' = [rcv EXCEPT ![p] = NoRecv]
               /\ tc' = [tc EXCEPT !.receiveMutex = "free",
                                   !.bRx = @ + me.read,
                                   !.rxDeclared = @ + me.total]
               /\ UNCHANGED inbound
     /\ UNCHANGED <<frames, snd, wire, inFrames>>
     /\ UNCHANGED <<tl, tp>>
     /\ UNCHANGED localVars
     /\ UNCHANGED <<hc, lk>>

(* ----------------------------- TCPListener ---------------------------- *)
\* how many times listen tries to bind
MaxRetry == 3

\* the errors net.Listen returns in the model
BindErrs == {"address already in use", "permission denied"}

\* errors.New("Error opening listener: " + err.Error())
OpenError(err) == <<"Error opening listener: ", err>>

\* the value recovered from close of a closed channel
Panic == "panic: close of closed channel"

\* NewTCPListener: the fields, the channels made and closed so far, the
\* sockets opened and closed so far; stopped tells that a Stop has returned
\* and no Listen was called since; accepted and returned count the
\* callbacks started by the accept loop and those that have returned
NewTCPListener ==
  [listening |-> FALSE, quit |-> 0, chans |-> 0, quitClosed |-> {},
   listener |-> 0, sockets |-> 0, lnClosed |-> {}, listeningLock |-> "free",
   stopped |-> FALSE, accepted |-> 0, returned |-> 0]

\* a goroutine that has called neither Listen nor Stop; each goroutine of
\* the model makes one call
NoCall == [pc |-> "idle", op |-> "none", i |-> 0, attempts |-> <<>>,
           slept |-> 0, ret |-> <<Nil>>, again |-> FALSE]

\* variant of GivesUp: the first failure ends the loop
GivesUp_first(i) == i = 0

\* the bind loop returns the error at its last turn
GivesUp(i) == i = MaxRetry - 1

\* Listen / listen up to the bind loop: the lock, listening, a new quit
TcpListenCall(p) ==
  /\ tp[p].op = "none"
  /\ tl.listeningLock = "free"
  /\ tl' = [tl EXCEPT !.listeningLock = p, !.listening = TRUE,
                      !.quit = tl.chans + 1, !.chans = @ + 1,
                      !.stopped = FALSE]
  /\ tp' = [tp EXCEPT ![p] = [NoCall EXCEPT !.pc = "bind", !.op = "Listen"]]
  /\ UNCHANGED connVars
  /\ UNCHANGED localVars
  /\ UNCHANGED <<hc, lk>>

\* one turn of the bind loop; err is what net.Listen returns
TcpListenBind(p, err) ==
  LET me == tp[p]
  IN /\ me.pc = "bind"
     /\ IF me.i < MaxRetry
          THEN IF err = Nil
                 THEN /\ tl' = [tl EXCEPT !.listener = tl.sockets + 1,
                                         !.sockets = @ + 1,
                                         !.listeningLock = "free"]
                      /\ tp' = [tp EXCEPT
                                  ![p].attempts = Append(@, err),
                                  ![p].pc = "accept"]
               ELSE IF GivesUp(me.i)
                 THEN /\ tl' = [tl EXCEPT !.listeningLock = "free"]
                      /\ tp' = [tp EXCEPT
                                  ![p].attempts = Append(@, err),
                                  ![p].pc = "idle",
                                  ![p].ret = OpenError(err)]
               ELSE /\ tp' = [tp EXCEPT
                                ![p].attempts = Append(@, err),
                                ![p].slept = @ + 1,
                                ![p].i = @ + 1]
                    /\ UNCHANGED tl
          ELSE /\ err = Nil
               /\ tl' = [tl EXCEPT !.listeningLock = "free"]
               /\ tp' = [tp EXCEPT ![p].pc = "accept"]
     /\ UNCHANGED connVars
     /\ UNCHANGED localVars
     /\ UNCHANGED <<hc, lk>>

\* a turn of the accept loop that changes something: Accept hands a
\* connection to fn, or fails and quit is found closed
TcpAccept(p, failed) ==
  /\ tp[p].pc = "accept"
  /\ tl.listener # 0
  /\ tl.listener \in tl.lnClosed => failed
  /\ IF failed
       THEN /\ tl.quit \in tl.quitClosed
            /\ tp' = [tp EXCEPT ![p].pc = "ack"]
            /\ UNCHANGED tl
       ELSE /\ tl.accepted < MaxAccepts
            /\ tl' = [tl EXCEPT !.accepted = @ + 1]
            /\ tp' = [tp EXCEPT ![p].pc = AfterGo("accept")]
  /\ UNCHANGED connVars
  /\ UNCHANGED localVars
  /\ UNCHANGED <<hc, lk>>

\* a callback started by the accept loop returns
TcpCallbackReturn ==
  /\ tl.returned < tl.accepted
  /\ tl' = [tl EXCEPT !.returned = @ + 1]
  /\ UNCHANGED tp
  /\ UNCHANGED connVars
  /\ UNCHANGED localVars
  /\ UNCHANGED <<hc, lk>>

\* Stop up to its loop: the lock, the test of listening, close(t.quit)
TcpStopCall(p) ==
  /\ tp[p].op = "none"
  /\ tl.listeningLock = "free"
  /\ IF ~tl.listening
       THEN /\ tl' = [tl EXCEPT !.stopped = TRUE]
            /\ tp' = [tp EXCEPT ![p] = [NoCall EXCEPT
                        !.op = "Stop", !.again = tl.stopped]]
     ELSE IF tl.quit \in tl.quitClosed
       THEN /\ UNCHANGED tl
            /\ tp' = [tp EXCEPT ![p] = [NoCall EXCEPT
                        !.op = "Stop", !.again = tl.stopped,
                        !.ret = <<Panic>>]]
     ELSE /\ tl' = [tl EXCEPT !.listeningLock = p,
                              !.quitClosed = @ \cup {tl.quit}]
          /\ tp' = [tp EXCEPT ![p] = [NoCall EXCEPT
                      !.op = "Stop", !.again = tl.stopped,
                      !.pc = "stopClose"]]
  /\ UNCHANGED connVars
  /\ UNCHANGED localVars
  /\ UNCHANGED <<hc, lk>>

\* the first half of a turn of the loop of Stop: t.listener.Close()
TcpStopClose(p) ==
  /\ tp[p].pc = "stopClose"
  /\ IF tl.listener = 0
       THEN /\ tp' = [tp EXCEPT ![p].pc = "stopSelect"]
            /\ UNCHANGED tl
     ELSE IF tl.listener \in tl.lnClosed
       THEN /\ tp' = [tp EXCEPT ![p].pc = "idle",
                                ![p].ret = <<"use of closed">>]
            /\ tl' = [tl EXCEPT !.listeningLock = "free", !.stopped = TRUE]
     ELSE /\ tp' = [tp EXCEPT ![p].pc = "stopSelect"]
          /\ tl' = [tl EXCEPT !.lnClosed = @ \cup {tl.listener}]
  /\ UNCHANGED connVars
  /\ UNCHANGED localVars
  /\ UNCHANGED <<hc, lk>>

\* the select of Stop takes the value the accept loop of goroutine l sends
\* on quitListener: Stop and Listen both return nil
TcpStopAck(p, l) ==
  /\ tp[p].pc = "stopSelect"
  /\ tp[l].pc = "ack"
  /\ tp' = [tp EXCEPT ![p].pc = "idle", ![l].pc = "idle"]
  /\ tl' = [tl EXCEPT !.listeningLock = "free", !.stopped = TRUE]
  /\ UNCHANGED connVars
  /\ UNCHANGED localVars
  /\ UNCHANGED <<hc, lk>>

\* the select of Stop takes time.After: the next turn
TcpStopTimeout(p) ==
  /\ tp[p].pc = "stopSelect"
  /\ tp' = [tp EXCEPT ![p].pc = "stopClose"]
  /\ UNCHANGED tl
  /\ UNCHANGED connVars
  /\ UNCHANGED localVars
  /\ UNCHANGED <<hc, lk>>

(* ---------------------- LocalHost.Connect, NewTCPConn ----------------- *)
\* how many times LocalHost.Connect tries
MaxRetryConnect == 2

\* the errors net.Dial returns in the model
DialErrs == {"connection refused", "no route to host"}

\* errors.New("Can't connect to non-Local address")
ErrNonLocal == "Can't connect to non-Local address"

\* fmt.Errorf("TCPHost %s can't handle this type of connection: %s", ...)
ErrCantHandle == "TCPHost can't handle this type of connection"

\* fmt.Errorf("Could not connect to %s: %s", address, err)
CouldNotConnect(err) == <<"Could not connect to ", err>>

\* a goroutine that has called neither; each goroutine of the model makes
\* one call. attempts holds the error of every attempt made, slept counts
\* the calls of time.Sleep(WaitRetry), conn is 0 for nil, err is finalErr
\* or err, ret the error returned
NoConnect == [pc |-> "idle", op |-> "none", local |-> NoAddr,
              remote |-> NoAddr, i |-> 0, attempts |-> <<>>, slept |-> 0,
              conn |-> 0, err |-> <<Nil>>, ret |-> <<Nil>>]

\* the goroutines that call LocalHost.Connect
Callers == {"g1", "g2"}

\* variant of HostTries: one more turn
HostTries_more(i) == i <= MaxRetryConnect

\* the test of the loop of LocalHost.Connect
HostTries(i) == i < MaxRetryConnect

\* variant of DialTries: one more turn
DialTries_more(i) == i <= MaxRetry

\* the test of the loop of NewTCPConn
DialTries(i) == i < MaxRetry

\* LocalHost.Connect up to its loop
LocalHostConnect(p, local, remote) ==
  /\ UNCHANGED lk
  /\ hc[p].op = "none"
  /\ hc' = [hc EXCEPT ![p] =
       IF ConnType(remote) # "Local"
         THEN [NoConnect EXCEPT !.op = "LocalHost.Connect", !.local = local,
                                !.remote = remote, !.ret = <<ErrNonLocal>>]
         ELSE [NoConnect EXCEPT !.op = "LocalHost.Connect", !.local = local,
                                !.remote = remote, !.pc = "try"]]
  /\ UNCHANGED tcpVars
  /\ UNCHANGED localVars

\* one turn of the loop of LocalHost.Connect: the test, then an attempt and
\* its return or its sleep; or the return of finalErr
HostAttempt(p) ==
  LET me == hc[p]
  IN /\ UNCHANGED lk
     /\ me.pc = "try"
     /\ IF HostTries(me.i)
          THEN /\ ContextConnect(me.local, me.remote)
               /\ hc' = [hc EXCEPT ![p] =
                    IF last'.err = Nil
                      THEN [me EXCEPT !.attempts = Append(@, Nil),
                                      !.conn = last'.c,
                                      !.pc = AfterGo("idle")]
                      ELSE [me EXCEPT !.attempts = Append(@, last'.err),
                                      !.err = <<last'.err>>,
                                      !.slept = @ + 1, !.i = @ + 1]]
          ELSE /\ hc' = [hc EXCEPT ![p].pc = "idle", ![p].ret = me.err]
               /\ UNCHANGED tcpVars
               /\ UNCHANGED localVars

\* TCPHost.Connect: the switch on the type of the address, and NewTCPConn
\* up to its loop
TcpHostConnect(p, remote) ==
  /\ UNCHANGED lk
  /\ hc[p].op = "none"
  /\ hc' = [hc EXCEPT ![p] =
       IF ConnType(remote) # "PlainTCP"
         THEN [NoConnect EXCEPT !.op = "TCPHost.Connect", !.remote = remote,
                                !.ret = <<ErrCantHandle>>]
         ELSE [NoConnect EXCEPT !.op = "TCPHost.Connect", !.remote = remote,
                                !.pc = "dial"]]
  /\ UNCHANGED tcpVars
  /\ UNCHANGED localVars

\* one turn of the loop of NewTCPConn: the test, then net.Dial and the
\* sleeps or the break; after the loop the return. dialErr is what net.Dial
\* returns
DialAttempt(p, dialErr) ==
  LET me == hc[p]
  IN /\ UNCHANGED lk
     /\ me.pc = "dial"
     /\ hc' = [hc EXCEPT ![p] =
          IF DialTries(me.i)
            THEN IF dialErr = Nil
                   THEN [me EXCEPT !.attempts = Append(@, Nil),
                                   !.conn = 1, !.err = <<Nil>>,
                                   !.pc = "idle"]
                   ELSE [me EXCEPT !.attempts = Append(@, dialErr),
                                   !.conn = 0, !.err = <<dialErr>>,
                                   !.slept = @ + 2, !.i = @ + 1]
            ELSE [me EXCEPT !.pc = "idle",
                            !.ret = IF me.conn = 0
                                      THEN CouldNotConnect(me.err[1])
                                      ELSE me.err]]
     /\ ~DialTries(me.i) => dialErr = Nil
     /\ UNCHANGED tcpVars
     /\ UNCHANGED localVars

(* ------------------- the LocalContext mutex in Send -------------------- *)
\* a goroutine that is not inside LocalContext.Send
NoLockedSend == [at |-> "idle", c |-> 0, msg |-> "none"]

\* the mutex of a new LocalContext, and nobody inside Send
NoLocks == [ctx |-> "free", th |-> [p \in Procs |-> NoLockedSend]]

\* ccc.Lock() goes through when nobody holds the mutex
CtxFree == lk.ctx = "free"

\* LocalContext.Send up to `q.Push(nm)`: ccc.Lock() and the lookup; when
\* the endpoint is not found it returns ErrClosed and the deferred Unlock
\* runs, else the goroutine is at the call of Push with the mutex held
SendLock(p, c, msg) ==
  /\ pc[p] = "idle"
  /\ lk.th[p].at = "idle"
  /\ CtxFree
  /\ nOps < MaxOps
  /\ IF SendTarget(c) \notin DOMAIN queues
       THEN /\ ContextSend(c, msg)
            /\ UNCHANGED lk
       ELSE /\ lk' = [lk EXCEPT !.ctx = p,
                                !.th[p] = [at |-> "Push", c |-> c,
                                           msg |-> msg]]
            /\ UNCHANGED localVars
            /\ UNCHANGED tcpVars
  /\ UNCHANGED hc

\* q.Push(nm) runs, then `return nil` and the deferred ccc.Unlock()
SendPush(p) ==
  /\ lk.th[p].at = "Push"
  /\ ContextSend(lk.th[p].c, lk.th[p].msg)
  /\ lk' = [lk EXCEPT !.ctx = "free", !.th[p] = NoLockedSend]
  /\ UNCHANGED hc

\* the operations that take the LocalContext mutex for one step
LockedListening(addr, fn) == CtxFree /\ ContextListening(addr, fn)
LockedConnect(local, remote) == CtxFree /\ Connect(local, remote)
LockedCloseEnd(p) == CtxFree /\ CloseEnd(p)

\* LocalConn.Receive and the first half of LocalConn.Close take the mutex
\* of the connQueue only
UnlockedReceive(p, c) == lk.th[p].at = "idle" /\ Receive(p, c)
UnlockedCloseBegin(p, c) == lk.th[p].at = "idle" /\ CloseBegin(p, c)

(* --------------------------- the state machine ------------------------ *)
\* NewLocalContext, and no listener constructed yet
Init ==
  /\ queues = <<>>
  /\ listening = <<>>
  /\ baseUid = 0
  /\ conns = <<>>
  /\ cq = <<>>
  /\ lst = [l \in Listeners |-> [made |-> FALSE, addr |-> NoAddr,
                                 listening |-> FALSE, quit |-> 0]]
  /\ chClosed = {}
  /\ accepted = <<>>
  /\ pc = [p \in Procs |-> "idle"]
  /\ parg = [p \in Procs |-> NoArg]
  /\ closeDone = {}
  /\ sent = <<>>
  /\ recvd = <<>>
  /\ nOps = 0
  /\ last = Step("init", 0, NoAddr)
  /\ tc = NewTCPConnState
  /\ frames = <<>>
  /\ snd = [p \in Procs |-> NoSend]
  /\ wire = <<>>
  /\ inFrames = <<>>
  /\ inbound = <<>>
  /\ rcv = [p \in Procs |-> NoRecv]
  /\ delivered = <<>>
  /\ tl = NewTCPListener
  /\ tp = [p \in Procs |-> NoCall]
  /\ hc = [p \in Procs |-> NoConnect]
  /\ lk = NoLocks

\* connections: the LocalContext and its LocalConns
Next ==
  \/ \E addr \in LocalAddrs, l \in Listeners :
       ContextListening(addr, Callback(l))
  \/ \E addr \in LocalAddrs : ContextStopListening(addr)
  \/ \E local \in LocalAddrs, remote \in AllAddrs : Connect(local, remote)
  \/ \E c \in ConnIds, msg \in Msgs : Send(c, msg)
  \/ \E p \in Procs, c \in ConnIds : CloseBegin(p, c)
  \/ \E p \in Procs : CloseEnd(p)
  \/ \E p \in Procs, c \in ConnIds : Receive(p, c)
  \/ \E p \in Procs : PopResume(p)

Spec == Init /\ [][Next]_vars

\* listeners: LocalListener objects over the LocalContext
NextListen ==
  \/ \E l \in Listeners, addr \in AllAddrs : NewLocalListener(l, addr)
  \/ \E p \in Procs, l \in Listeners : ListenBegin(p, l)
  \/ \E p \in Procs : ListenReadQuit(p)
  \/ \E p \in Procs : ListenReturn(p)
  \/ \E l \in Listeners : Stop(l)
  \/ \E local \in LocalAddrs, remote \in AllAddrs : Connect(local, remote)

SpecListen == Init /\ [][NextListen]_vars

\* the goroutines that call Send or Receive on the TCPConn
Senders == {"g1", "g2"}

\* sending on the TCPConn, from several goroutines
NextTcpSend ==
  \/ \E p \in Senders, length \in PayloadLens : TcpSendCall(p, length)
  \/ \E p \in Senders, err \in {NilErr} \cup SockErrs : TcpSendLock(p, err)
  \/ \E p \in Senders, err \in {NilErr} \cup SockErrs, short \in BOOLEAN :
       TcpSendStep(p, err, short)

\* a goroutine inside Send keeps being scheduled
SpecTcpSend ==
  /\ Init
  /\ [][NextTcpSend]_vars
  /\ \A p \in Senders :
       WF_vars(\E err \in {NilErr} \cup SockErrs, short \in BOOLEAN :
                 TcpSendStep(p, err, short))

\* receiving on the TCPConn what the peer writes
NextTcpRecv ==
  \/ \E length \in InLens : PeerWrite(length)
  \/ \E p \in Senders : TcpRecvLock(p)
  \/ \E p \in Senders, err \in {NilErr, EOFErr}, total \in InLens :
       TcpRecvSize(p, err, total)
  \/ \E p \in Senders, err \in {NilErr, EOFErr}, n \in InLens :
       TcpRecvStep(p, err, n)

SpecTcpRecv == Init /\ [][NextTcpRecv]_vars

\* the TCPListener: Listen and Stop from several goroutines
NextTcpListen ==
  \/ \E p \in Procs : TcpListenCall(p)
  \/ \E p \in Procs, err \in {Nil} \cup BindErrs : TcpListenBind(p, err)
  \/ \E p \in Procs, failed \in BOOLEAN : TcpAccept(p, failed)
  \/ \E p \in Procs : TcpStopCall(p)
  \/ \E p \in Procs : TcpStopClose(p)
  \/ \E p \in Procs, l \in Procs : TcpStopAck(p, l)
  \/ \E p \in Procs : TcpStopTimeout(p)

SpecTcpListen == Init /\ [][NextTcpListen]_vars

\* connecting with retries, while listeners come and go
NextRetry ==
  \/ \E addr \in LocalAddrs, l \in Listeners :
       ContextListening(addr, Callback(l))
  \/ \E addr \in LocalAddrs : ContextStopListening(addr)
  \/ \E p \in Callers, local \in LocalAddrs, remote \in AllAddrs :
       LocalHostConnect(p, local, remote)
  \/ \E p \in Callers : HostAttempt(p)

SpecRetry == Init /\ [][NextRetry]_vars

\* dialling with retries
NextDial ==
  \/ \E p \in Procs, remote \in AllAddrs : TcpHostConnect(p, remote)
  \/ \E p \in Procs, dialErr \in {Nil} \cup DialErrs : DialAttempt(p, dialErr)

SpecDial == Init /\ [][NextDial]_vars

\* receiving under a context the caller may cancel
NextCancel ==
  \/ \E addr \in LocalAddrs, l \in Listeners :
       ContextListening(addr, Callback(l))
  \/ \E local \in LocalAddrs, remote \in LocalAddrs : Connect(local, remote)
  \/ \E c \in ConnIds, msg \in Msgs : Send(c, msg)
  \/ \E p \in Procs, c \in ConnIds : CloseBegin(p, c)
  \/ \E p \in Procs : CloseEnd(p)
  \/ \E p \in Procs, c \in ConnIds : Receive(p, c)
  \/ \E p \in Procs : PopResume(p)
  \/ \E p \in Procs : CancelContext(p)

SpecCancel == Init /\ [][NextCancel]_vars

\* the goroutines that call Close
Closers == {"g1", "g2"}

\* closing: the Close of both Conn variants, on connections that carry
\* packets
NextClose ==
  \/ \E addr \in LocalAddrs, l \in Listeners :
       ContextListening(addr, Callback(l))
  \/ \E local \in LocalAddrs, remote \in LocalAddrs : Connect(local, remote)
  \/ \E c \in ConnIds, msg \in Msgs : Send(c, msg)
  \/ \E p \in Closers, c \in ConnIds : CloseBegin(p, c)
  \/ \E p \in Closers : CloseEnd(p)
  \/ \E sockErr \in {NilErr, IOTimeout} : TcpClose(sockErr)

SpecClose == Init /\ [][NextClose]_vars

\* accepting, with callbacks that return late or never
NextAccept ==
  \/ \E addr \in LocalAddrs : ContextListening(addr, Callback("L1"))
  \/ \E p \in Callers, remote \in LocalAddrs :
       LocalHostConnect(p, "A", remote)
  \/ \E p \in Callers : HostAttempt(p)
  \/ \E i \in DOMAIN accepted : CallbackBegin(i)
  \/ \E i \in DOMAIN accepted : CallbackReturn(i)
  \/ TcpListenCall("g1")
  \/ TcpListenBind("g1", Nil)
  \/ TcpAccept("g1", FALSE)
  \/ TcpCallbackReturn

SpecAccept == Init /\ [][NextAccept]_vars

\* classifying the errors of the socket
NextErrors == \E err \in AnyErrs : Classify(err)

SpecErrors == Init /\ [][NextErrors]_vars

\* the two hosts connecting side by side
NextPolicy ==
  \/ \E addr \in LocalAddrs : ContextListening(addr, Callback("L1"))
  \/ \E p \in Callers, remote \in LocalAddrs :
       LocalHostConnect(p, "A", remote)
  \/ \E p \in Callers : HostAttempt(p)
  \/ \E p \in Callers : TcpHostConnect(p, TcpAddr)
  \/ \E p \in Callers, dialErr \in {Nil} \cup DialErrs :
       DialAttempt(p, dialErr)

SpecPolicy == Init /\ [][NextPolicy]_vars

\* the virtual transport with the LocalContext mutex made explicit
NextLocks ==
  \/ \E addr \in LocalAddrs : LockedListening(addr, Callback("L1"))
  \/ \E local \in LocalAddrs, remote \in LocalAddrs :
       LockedConnect(local, remote)
  \/ \E p \in Senders, c \in ConnIds, msg \in Msgs : SendLock(p, c, msg)
  \/ \E p \in Senders : SendPush(p)
  \/ \E p \in Procs, c \in ConnIds : UnlockedReceive(p, c)
  \/ \E p \in Procs : PopResume(p)
  \/ \E p \in Procs, c \in ConnIds : UnlockedCloseBegin(p, c)
  \/ \E p \in Procs : LockedCloseEnd(p)

SpecLocks == Init /\ [][NextLocks]_vars

\* the callback of the Connect that made LocalConn c, an incoming one
CallbackOf(c) == CHOOSE i \in DOMAIN accepted : accepted[i].conn = c

\* who can call a method of LocalConn c: the outgoing LocalConn is returned
\* to the caller of Connect, the incoming one is the argument of fn
Handed(c) == IF c % 2 = 1 THEN TRUE ELSE accepted[CallbackOf(c)].begun

\* LocalConn.Send by a goroutine that has the LocalConn
HandedSend(c, msg) == Handed(c) /\ Send(c, msg)

\* LocalConn.Receive by a goroutine that has the LocalConn
HandedReceive(p, c) == Handed(c) /\ Receive(p, c)

\* LocalConn.Close by a goroutine that has the LocalConn
HandedCloseBegin(p, c) == Handed(c) /\ CloseBegin(p, c)

\* the virtual transport with the start of each accept callback as a step
NextCallback ==
  \/ \E addr \in LocalAddrs : ContextListening(addr, Callback("L1"))
  \/ \E local \in LocalAddrs, remote \in LocalAddrs : Connect(local, remote)
  \/ \E i \in DOMAIN accepted : CallbackBegin(i)
  \/ \E c \in ConnIds, msg \in Msgs : HandedSend(c, msg)
  \/ \E p \in Senders, c \in ConnIds : HandedReceive(p, c)
  \/ \E p \in Procs : PopResume(p)
  \/ \E p \in Closers, c \in ConnIds : HandedCloseBegin(p, c)
  \/ \E p \in Procs : CloseEnd(p)

SpecCallback == Init /\ [][NextCallback]_vars

\* stopping a listener while connections made through it are in use
NextStop ==
  \/ \E addr \in LocalAddrs : ContextListening(addr, Callback("L2"))
  \/ \E addr \in LocalAddrs : NewLocalListener("L1", addr)
  \/ \E p \in Callers : ListenBegin(p, "L1")
  \/ \E p \in Callers : ListenReadQuit(p)
  \/ \E p \in Callers : ListenReturn(p)
  \/ Stop("L1")
  \/ \E addr \in LocalAddrs : ContextStopListening(addr)
  \/ \E remote \in LocalAddrs : Connect("A", remote)
  \/ \E c \in ConnIds, msg \in Msgs : Send(c, msg)
  \/ \E c \in ConnIds : Receive("g3", c)
  \/ PopResume("g3")

SpecStop == Init /\ [][NextStop]_vars

\* sending on a TCPConn that is closed at some moment, here or by the peer
NextSendClosed ==
  \/ \E p \in Senders, length \in PayloadLens : TcpSendCall(p, length)
  \/ \E p \in Senders, err \in {NilErr} \cup SockErrs : TcpSendLock(p, err)
  \/ \E p \in Senders, err \in {NilErr} \cup SockErrs, short \in BOOLEAN :
       TcpSendStep(p, err, short)
  \/ TcpClose(NilErr)

SpecSendClosed == Init /\ [][NextSendClosed]_vars

(* ------------------------------ properties ---------------------------- *)
\* the bodies carried by a sequence of packets
BodiesOf(pkts) == [i \in 1 .. Len(pkts) |-> pkts[i].Msg]

\* Local() of a LocalConn
Local(c) == conns[c].local[1]

\* Remote() of a LocalConn
Remote(c) == conns[c].remote[1]

\* no Close call has started on either LocalConn of the pair of c
NeitherClosed(c) == ~cq[c].isClosed /\ ~cq[Peer(c)].isClosed

\* no operation is between two of its steps: only new calls can change the state
Quiescent == \A p \in Procs : pc[p] \in {"idle", "popWait", "listenWait"}

\* C1: while neither side of a pair has been closed, what a LocalConn has
\* received and still holds queued is exactly what its peer's Sends were
\* given, in the order of the Sends: nothing lost, duplicated or reordered.
C1_FifoDelivery ==
  \A c \in ConnIds :
    NeitherClosed(c) => sent[c] = BodiesOf(recvd[c] \o cq[c].queue)

\* C1 witness: two different packets sent, the first received, the second
\* still queued, on an open pair
C1_Witness ==
  \E c \in ConnIds :
    /\ NeitherClosed(c)
    /\ Len(sent[c]) = 2 /\ sent[c][1] # sent[c][2]
    /\ Len(recvd[c]) = 1 /\ Len(cq[c].queue) = 1

\* C2: a Pop on a queue that holds packets returns the oldest of them, also
\* when the queue is closed, and ErrClosed is returned only by a Pop that
\* found the queue empty.
C2_PopDrainsClosedQueue ==
  last.op = "Receive" =>
    /\ last.pend > 0 => last.err = Nil
    /\ last.err = ErrClosed => last.pend = 0

\* C3: a Receive called after Close() has returned on the peer LocalConn
\* never blocks, and returns ErrClosed when no packet is queued.
C3_ReceiveAfterPeerClose ==
  /\ \A p \in Procs : pc[p] \in {"popWait", "popWoken"} => ~parg[p].after
  /\ last.after /\ last.op \in {"Receive", "PopWait"} =>
       /\ last.op = "Receive"
       /\ last.pend = 0 => last.err = ErrClosed

\* C3 witness: such a Receive has returned ErrClosed on an empty queue
C3_Witness ==
  /\ last.op = "Receive" /\ last.after
  /\ last.pend = 0 /\ last.err = ErrClosed

\* C4: once a connQueue is closed and every call in progress has run to its
\* end or to its wait, no Pop is left blocked on that queue.
C4_CloseWakesEveryBlockedPop ==
  Quiescent =>
    \A p \in Procs : pc[p] = "popWait" => ~cq[parg[p].c].isClosed

\* C5: a Send on either LocalConn of a pair, made after a Close() of one of
\* the two has returned, returns ErrClosed and changes no queue.
C5_SendAfterClose ==
  [][(last'.op = "Send" /\ last'.after) =>
       (last'.err = ErrClosed /\ ~last'.app /\ cq' = cq)]_vars

\* C5 witness: such a Send has failed while another connection is registered
C5_Witness ==
  /\ last.op = "Send" /\ last.after /\ last.err = ErrClosed
  /\ Cardinality(DOMAIN queues) >= 2

\* C6: a Send that returns nil has appended its packet to a queue, and a
\* Send that appended nothing returns ErrClosed.
C6_SendNilMeansQueued ==
  last.op = "Send" =>
    /\ last.err = Nil => last.app
    /\ ~last.app => last.err = ErrClosed

\* C7: the i-th Packet a LocalConn receives has the msgType and the body of
\* the i-th body its peer sent, and From equal to the peer's Local().
C7_RoundTrip ==
  \A c \in ConnIds : \A i \in 1 .. Len(recvd[c]) :
    /\ i <= Len(sent[c])
    /\ recvd[c][i].Msg = sent[c][i]
    /\ recvd[c][i].MsgType = sent[c][i].typ
    /\ recvd[c][i].From = Local(Peer(c))

\* C8: of two LocalListeners made for the same Address at most one is in the
\* listening state.
C8_NoDoubleListen ==
  \A l1 \in Listeners, l2 \in Listeners :
    (l1 # l2 /\ lst[l1].made /\ lst[l2].made /\ lst[l1].addr = lst[l2].addr)
      => ~(lst[l1].listening /\ lst[l2].listening)

\* C9: Connect succeeds exactly when remote is in listening as the call
\* holds the lock; when it fails it returns no Conn and leaves queues,
\* listening, the uid counter, the connections and the callbacks started
\* unchanged.
C9_ConnectIffListening ==
  [][last'.op = "Connect" =>
       IF last'.a \in DOMAIN listening
         THEN /\ last'.err = Nil
              /\ last'.c \in DOMAIN conns' \ DOMAIN conns
         ELSE /\ last'.err # Nil
              /\ last'.c = 0
              /\ UNCHANGED <<queues, listening, baseUid, conns, cq,
                             accepted>>]_vars

\* C9 witness: a Connect has failed in a context that has a listening
\* address and a connection made by an earlier Connect
C9_Witness ==
  /\ last.op = "Connect" /\ last.err = ErrNotListening
  /\ DOMAIN listening # {} /\ Len(conns) > 0

\* C10: a Send changes no queue but the one of the paired peer of the
\* LocalConn it is called on, and on a pair no Close has touched it appends
\* its packet to that queue.
C10_SendReachesPairedPeer ==
  [][last'.op = "Send" =>
       /\ \A q \in DOMAIN cq : q # Peer(last'.c) => cq'[q] = cq[q]
       /\ NeitherClosed(last'.c) =>
            cq'[Peer(last'.c)].queue =
              Append(cq[Peer(last'.c)].queue, last'.pkt)]_vars

\* C10 witness: a Send has been queued while two connections of an Address
\* to itself are live
C10_Witness ==
  /\ last.op = "Send" /\ last.app
  /\ Len(conns) >= 4
  /\ Local(1) = Remote(1) /\ Local(3) = Local(1) /\ Remote(3) = Remote(1)
  /\ \A c \in 1 .. 4 : ~cq[c].isClosed

\* C11: a Close made after a Close() of the pair has returned (by the same
\* side or by the peer) returns nil and changes neither the registry nor a
\* queue; a Close of a closed TCPConn returns nil, and conn.Close() is
\* called at most once.
C11_CloseIdempotent ==
  [][/\ (last'.op \in {"CloseBegin", "Close"} /\ last'.after) =>
          (queues' = queues /\ cq' = cq /\ last'.err = Nil)
     /\ last'.op = "TcpClose" =>
          /\ tc'.sockCloses <= 1
          /\ tc.closed =>
               /\ last'.err = Nil
               /\ tc'.closed /\ tc'.sockCloses = tc.sockCloses]_vars

\* C11 witness: a second Close has returned on a LocalConn whose queue holds
\* a packet, and a Close of the closed TCPConn has returned
C11_Witness ==
  /\ last.op = "Close" /\ last.after
  /\ \E c \in ConnIds : Len(cq[c].queue) > 0
  /\ tc.skipped

\* C12: a Receive blocked on an open, empty connection returns once the
\* context its caller passed is cancelled: when every call has been made and
\* no goroutine has a step left, none is still parked in a Receive whose
\* context was cancelled.
C12_CancelledReceiveReturns ==
  (nOps = MaxOps /\ Quiescent) =>
    \A p \in Procs : ~(pc[p] = "popWait" /\ parg[p].cancelled)

\* the runs of Send call f on the socket, in the order written
WrittenOf(f) == SelectSeq(wire, LAMBDA r : r.f = f)

\* the frame of Send call f: the length, then the bytes 1..length
FrameOf(f) ==
  <<PrefixRun(f, frames[f].len)>>
    \o (IF frames[f].len > 0 THEN <<DataRun(f, 1, frames[f].len)>> ELSE <<>>)

\* C14: a send of a payload of any length, short writes included, ends
\* (every goroutine in the loop of send leaves it); when it returns nil it
\* has written the length prefix followed by exactly the bytes of the
\* payload in their order; and no Write is handed more than maxChunkSize
\* bytes.
C14_SendWritesWholeFrame ==
  /\ [](\A f \in DOMAIN frames :
          frames[f].ret = Nil => WrittenOf(f) = FrameOf(f))
  /\ [](\A p \in Senders : snd[p].chunk <= maxChunkSize)
  /\ \A p \in Senders : (snd[p].pc = "write") ~> (snd[p].pc = "idle")

\* C14 witness: a Send of more than two chunks has returned nil after a
\* short write, and another of no byte has returned nil
C14_Witness ==
  /\ \E f \in DOMAIN frames :
       /\ frames[f].len > 2 * maxChunkSize /\ frames[f].ret = Nil
       /\ frames[f].writes > 3
  /\ \E f \in DOMAIN frames : frames[f].len = 0 /\ frames[f].ret = Nil
  /\ tc.bTx > 2 * maxChunkSize

\* C15: when several goroutines call Send on the same TCPConn, the bytes
\* on the socket are whole frames one after the other: no byte of one Send
\* lies between two bytes of another.
C15_FramesNotInterleaved ==
  \A i \in DOMAIN wire, j \in DOMAIN wire, k \in DOMAIN wire :
    (i < j /\ j < k /\ wire[i].f = wire[k].f) => wire[j].f = wire[i].f

\* C15 witness: a Send called while another goroutine held the lock has
\* returned nil, as has the other, both with more than one chunk
C15_Witness ==
  /\ Len(frames) = 2
  /\ frames[2].contended
  /\ \A f \in DOMAIN frames :
       frames[f].ret = Nil /\ frames[f].len > maxChunkSize
  /\ wire = FrameOf(1) \o FrameOf(2) \/ wire = FrameOf(2) \o FrameOf(1)

\* C13: while no read has failed, receive returns for each frame exactly
\* the bytes of its payload, frame after frame, however the reads of the
\* socket split the stream; the buffer it fills never holds a byte of
\* another frame.
C13_ReceiveExactFrame ==
  ~tc.rxFailed =>
    /\ \A k \in DOMAIN delivered : delivered[k] = PayloadOf(k)
    /\ \A p \in Senders :
         rcv[p].pc = "read" =>
           \A i \in DOMAIN rcv[p].buffer :
             rcv[p].buffer[i] = PayloadByte(Len(delivered) + 1, i)

\* the goroutines that have called Listen, and those inside Stop
Listeners_tcp == {p \in Procs : tp[p].op = "Listen"}
InStop == {p \in Procs : tp[p].pc \in {"stopClose", "stopSelect"}}

\* C16: a Stop called after a Stop has returned, with no Listen in between,
\* returns nil at once: it neither blocks nor panics nor fails.
C16_StopIdempotent ==
  \A p \in Procs :
    (tp[p].op = "Stop" /\ tp[p].again) =>
      (tp[p].pc = "idle" /\ tp[p].ret = <<Nil>>)

\* C17: with one accept loop running, Stop returns only after it has taken
\* the acknowledgement of the loop: the loop is never left sending its
\* acknowledgement with no Stop there to take it.
C17_StopWaitsForAck ==
  Cardinality(Listeners_tcp) = 1 =>
    \A l \in Procs : tp[l].pc = "ack" => InStop # {}

\* C18: listen makes no bind attempt after one that succeeded and never
\* more than MaxRetry; it returns an error only after exactly MaxRetry
\* failed attempts, and the error holds the error of the last one; it is
\* in its accept loop only after an attempt that succeeded.
C18_BindRetries ==
  \A p \in Listeners_tcp :
    LET a == tp[p].attempts
    IN /\ Len(a) <= MaxRetry
       /\ \A i \in 1..(Len(a) - 1) : a[i] # Nil
       /\ tp[p].pc = "bind" =>
            /\ Len(a) < MaxRetry
            /\ \A i \in 1..Len(a) : a[i] # Nil
       /\ (tp[p].pc = "idle" /\ tp[p].ret # <<Nil>>) =>
            /\ Len(a) = MaxRetry
            /\ a[MaxRetry] # Nil
            /\ tp[p].ret = OpenError(a[MaxRetry])
       /\ (tp[p].pc \in {"accept", "ack"}
             \/ (tp[p].pc = "idle" /\ tp[p].ret = <<Nil>>)) =>
            (Len(a) > 0 /\ a[Len(a)] = Nil)

\* C18 witness: one Listen has returned the error of its last attempt,
\* which differs from that of its first; another is in its accept loop
\* after a failed and a successful attempt
C18_Witness ==
  /\ \E p \in Listeners_tcp :
       /\ tp[p].pc = "idle" /\ Len(tp[p].attempts) = MaxRetry
       /\ tp[p].ret = OpenError(tp[p].attempts[MaxRetry])
       /\ tp[p].attempts[MaxRetry] # tp[p].attempts[1]
  /\ \E p \in Listeners_tcp :
       tp[p].pc = "accept" /\ Len(tp[p].attempts) > 1

\* the failed attempts among the attempts a
Failed(a) == {i \in DOMAIN a : a[i] # Nil}

\* C19: LocalHost.Connect to a Local address makes no attempt after one
\* that found the remote listening, and never more than MaxRetryConnect;
\* every failed attempt is followed by one sleep of WaitRetry; it returns
\* nil and an error only after exactly MaxRetryConnect failed attempts, and
\* the error is that of the last one; a Conn it returns was made by its
\* last attempt, from the caller's address to the remote.
C19_HostConnectRetries ==
  \A p \in Callers :
    (hc[p].op = "LocalHost.Connect" /\ ConnType(hc[p].remote) = "Local") =>
      LET a == hc[p].attempts
      IN /\ Len(a) <= MaxRetryConnect
         /\ \A i \in 1..(Len(a) - 1) : a[i] # Nil
         /\ hc[p].slept = Cardinality(Failed(a))
         /\ hc[p].pc = "try" => Cardinality(Failed(a)) = Len(a)
         /\ (hc[p].pc = "idle" /\ hc[p].conn = 0) =>
              /\ Len(a) = MaxRetryConnect
              /\ Cardinality(Failed(a)) = MaxRetryConnect
              /\ hc[p].ret = <<a[MaxRetryConnect]>>
         /\ (hc[p].pc = "idle" /\ hc[p].conn # 0) =>
              /\ a[Len(a)] = Nil
              /\ hc[p].ret = <<Nil>>
              /\ hc[p].conn \in ConnIds
              /\ Local(hc[p].conn) = hc[p].local
              /\ Remote(hc[p].conn) = hc[p].remote

\* C19 witness: one Connect has returned the error of its last attempt
\* after MaxRetryConnect attempts, and another a Conn from the attempt that
\* followed a failed one
C19_Witness ==
  /\ \E p \in Callers :
       /\ hc[p].pc = "idle" /\ hc[p].conn = 0
       /\ Len(hc[p].attempts) = MaxRetryConnect
       /\ hc[p].ret = <<ErrNotListening>>
  /\ \E p \in Callers :
       /\ hc[p].pc = "idle" /\ hc[p].conn # 0
       /\ Len(hc[p].attempts) > 1

\* C20: NewTCPConn makes no dial after one that succeeded and never more
\* than MaxRetry; after a dial that succeeded it returns the connection and
\* a nil error; it returns nil and an error only after MaxRetry failed
\* dials, and the error holds that of the last dial.
C20_DialRetries ==
  \A p \in Procs :
    (hc[p].op = "TCPHost.Connect" /\ ConnType(hc[p].remote) = "PlainTCP") =>
      LET a == hc[p].attempts
      IN /\ Len(a) <= MaxRetry
         /\ \A i \in 1..(Len(a) - 1) : a[i] # Nil
         /\ hc[p].pc = "dial" =>
              (Cardinality(Failed(a)) = Len(a) /\ hc[p].conn = 0)
         /\ (hc[p].pc = "idle" /\ hc[p].conn = 0) =>
              /\ Len(a) = MaxRetry
              /\ Cardinality(Failed(a)) = MaxRetry
              /\ hc[p].ret = CouldNotConnect(a[MaxRetry])
         /\ (hc[p].pc = "idle" /\ hc[p].conn # 0) =>
              (a[Len(a)] = Nil /\ hc[p].ret = <<Nil>>)

\* C20 witness: one NewTCPConn has returned the error of its last dial,
\* which differs from that of its first, and another a connection from the
\* dial that followed a failed one
C20_Witness ==
  /\ \E p \in Procs :
       /\ hc[p].pc = "idle" /\ hc[p].conn = 0
       /\ Len(hc[p].attempts) = MaxRetry
       /\ hc[p].ret = CouldNotConnect(hc[p].attempts[MaxRetry])
       /\ hc[p].attempts[MaxRetry] # hc[p].attempts[1]
  /\ \E p \in Procs :
       /\ hc[p].pc = "idle" /\ hc[p].conn # 0
       /\ Len(hc[p].attempts) > 1

\* C21: a Listen call on a LocalListener returns once a Stop is issued after
\* it registered the address, also when two Listen calls run on the same
\* listener: such a call is never left waiting on a quit channel that is
\* open and that the listener no longer holds, so that no Stop can close it.
C21_StopReleasesListen ==
  \A p \in Procs :
    (pc[p] = "listenWait" /\ parg[p].stopped) =>
      (parg[p].ch \in chClosed \/ lst[parg[p].l].quit = parg[p].ch)

\* the uid of the local endpoint of LocalConn c
Uid(c) == conns[c].local[2]

\* C22: the uids Connect hands out are pairwise distinct over all the
\* connections ever made, closed ones included: the outgoing endpoint of a
\* Connect has uid N and the incoming one N + 1, the counter lies above
\* every uid handed out, and no two LocalConns have the same endpoint key.
C22_UidsDistinct ==
  /\ \A c \in ConnIds, d \in ConnIds :
       c # d => (Uid(c) # Uid(d) /\ conns[c].local # conns[d].local)
  /\ \A c \in ConnIds :
       /\ Uid(c) < baseUid
       /\ c % 2 = 1 => Uid(Peer(c)) = Uid(c) + 1

\* C22 witness: a Connect made after a Close of an earlier connection
\* between the same two addresses has returned
C22_Witness ==
  \E c \in closeDone, d \in ConnIds :
    /\ d > c + 1
    /\ Local(d) = Local(c) /\ Remote(d) = Remote(c)

(* C23: every key of queues is the local endpoint of exactly one LocalConn,
   neither that LocalConn nor its peer has completed Close, and the key maps
   to that LocalConn's own connQueue. *)
C23_QueuesLive ==
  \A k \in DOMAIN queues :
    /\ Cardinality({c \in ConnIds : conns[c].local = k}) = 1
    /\ \A c \in ConnIds :
         conns[c].local = k =>
           /\ queues[k] = c
           /\ c \notin closeDone
           /\ Peer(c) \notin closeDone

\* a Close has completed on one pair while another pair is still registered
C23_Witness ==
  \E c \in closeDone :
    /\ conns[c].local \notin DOMAIN queues
    /\ conns[c].remote \notin DOMAIN queues
    /\ DOMAIN queues # {}

(* C24: a Send on a closed TCPConn returns ErrClosed. A Send called after
   Close does not return anything else, and a Send that fails (the only
   write errors of this model are those of a socket closed here, "use of
   closed", or by the peer, "broken pipe") returns ErrClosed, be it the
   write of the length prefix or that of a chunk that failed. *)
C24_SendOnClosedErrClosed ==
  \A f \in DOMAIN frames :
    /\ (frames[f].closed /\ frames[f].ret # Pending) =>
         frames[f].ret = ErrClosed
    /\ frames[f].ret \notin {Pending, Nil} => frames[f].ret = ErrClosed

(* C25: accepting never waits for the accept callback. A goroutine that
   has started a callback, be it the caller of Connect or the accept loop
   of the TCPListener, is never inside the callback: the caller whose
   Connect made a pair of LocalConns has returned with its LocalConn, and
   the accept loop is at its next Accept, whether the callback has returned
   or not. *)
C25_AcceptDoesNotWait ==
  /\ \A p \in Callers :
       /\ hc[p].pc # "fn"
       /\ hc[p].conn # 0 => (hc[p].pc = "idle" /\ hc[p].ret = <<Nil>>)
  /\ \A p \in Procs :
       /\ tp[p].pc # "fn"
       /\ (tp[p].op = "Listen" /\ tl.accepted > 0 /\ tl.listener # 0
             /\ tp[p].attempts # <<>>
             /\ tp[p].attempts[Len(tp[p].attempts)] = Nil) =>
            tp[p].pc = "accept"

\* two Connects have returned and two inbound connections were accepted
\* while no callback at all has returned
C25_Witness ==
  /\ \A p \in Callers : hc[p].conn # 0 /\ hc[p].pc = "idle"
  /\ Len(accepted) = 2 /\ \A i \in DOMAIN accepted : ~accepted[i].done
  /\ tl.accepted = 2 /\ tl.returned = 0

(* C26: every call of Stop returns. A goroutine in the loop of Stop leaves
   it by taking the acknowledgement of an accept loop or by the error of
   t.listener.Close(); so at every moment either there is a listener
   socket to close or a goroutine inside Listen that can still send the
   acknowledgement. Otherwise every turn of the loop ends in the timeout,
   and no Listen can begin, as Stop holds listeningLock. *)
C26_StopReturns ==
  \A p \in Procs :
    tp[p].pc \in {"stopClose", "stopSelect"} =>
      \/ tl.listener # 0
      \/ \E l \in Procs : tp[l].pc \in {"bind", "accept", "ack"}

(* C27: each Connect(local, remote) that succeeds starts exactly one
   callback, the one registered for remote as the call holds the lock, on
   a LocalConn whose Local() is remote and whose Remote() is local, and
   hands the caller a LocalConn whose Local() is local and whose Remote()
   is remote; no other step starts a callback. *)
C27_OneCallbackPerConnect ==
  [][/\ \A p \in Callers :
          (hc[p].conn = 0 /\ hc'[p].conn # 0) =>
            LET c == hc'[p].conn
                d == Peer(c)
            IN /\ accepted' = Append(accepted,
                                [fn |-> listening[hc[p].remote], conn |-> d,
                                 begun |-> FALSE, early |-> 0,
                                 done |-> FALSE])
               /\ conns'[c].local[1] = hc[p].local
               /\ conns'[c].remote[1] = hc[p].remote
               /\ conns'[d].local[1] = hc[p].remote
               /\ conns'[d].remote[1] = hc[p].local
     /\ accepted' # accepted =>
          \E p \in Callers : hc[p].conn = 0 /\ hc'[p].conn # 0]_vars

\* two Connects from A to B have succeeded, the first when B had the
\* callback of L1, the second after that of L2 had replaced it
C27_Witness ==
  /\ Len(accepted) = 2
  /\ accepted[1].fn = Callback("L1") /\ accepted[2].fn = Callback("L2")
  /\ \A p \in Callers :
       hc[p].conn # 0 /\ hc[p].local = "A" /\ hc[p].remote = "B"

(* C28: a closed connQueue stays closed and its contents never grow: no
   step resets isClosed or makes the queue longer, and a Send whose Push
   finds the queue closed leaves every queue as it was. *)
C28_ClosedQueueFrozen ==
  [][/\ \A q \in DOMAIN cq :
          cq[q].isClosed =>
            /\ cq'[q].isClosed
            /\ Len(cq'[q].queue) <= Len(cq[q].queue)
     /\ (last'.op = "Send" /\ last'.err = Nil /\ ~last'.app) => cq' = cq]_vars

\* a Send has found the queue of its peer closed with a packet in it
C28_Witness ==
  /\ last.op = "Send" /\ last.err = Nil /\ ~last.app
  /\ cq[Peer(last.c)].isClosed
  /\ Len(cq[Peer(last.c)].queue) > 0

\* the least number of payload bytes Send call f has written in chunks
\* whose Write returned nil: the whole payload when Send returned nil; else
\* a byte at least for every Write but the one that failed (a Write that
\* returns nil has written a byte or more)
MinSent(f) ==
  IF frames[f].ret = Nil THEN frames[f].len
  ELSE IF frames[f].writes > 1 THEN frames[f].writes - 1
  ELSE 0

\* MinSent over the Send calls 1..k
RECURSIVE MinSentUpTo(_)
MinSentUpTo(k) == IF k = 0 THEN 0 ELSE MinSent(k) + MinSentUpTo(k - 1)

(* C29: Tx counts the payload bytes of the chunks written. When no Send is
   under way, Tx is not less than what the Sends made have written in
   chunks whose Write succeeded: the whole payload for a Send that
   returned nil, the chunks written before the failure for one that
   failed part-way; and it is exactly the sum of the payloads when every
   Send returned nil. *)
C29_TxCountsChunks ==
  (\A p \in Senders : snd[p].pc = "idle") =>
    /\ tc.bTx >= MinSentUpTo(Len(frames))
    /\ (\A f \in DOMAIN frames : frames[f].ret = Nil) =>
         tc.bTx = MinSentUpTo(Len(frames))

(* C30: Rx is the sum of the declared payload lengths of the packets
   receive has returned: every receive that returns a packet adds the
   value of its length prefix, and a receive that fails adds nothing. *)
C30_RxCountsDeclared == tc.bRx = tc.rxDeclared

(* C31: the LocalContext mutex is held only for lookups and mutations of
   the maps: the goroutine that holds it is neither at connQueue.Push nor
   inside connQueue.Pop (running it or parked in its Wait). *)
C31_NoQueueOpUnderCtxLock ==
  \A p \in Procs :
    lk.ctx = p =>
      /\ lk.th[p].at # "Push"
      /\ pc[p] \notin {"popWait", "popWoken"}

(* C32: LocalHost.Connect and NewTCPConn apply the same retry policy: one
   delay of WaitRetry after a failed attempt, so that two calls, one of
   each host, that have made the same number of failed attempts have
   slept the same number of times. *)
C32_SameRetryPolicy ==
  \A p \in Callers, q \in Callers :
    (/\ hc[p].op = "LocalHost.Connect"
     /\ hc[q].op = "TCPHost.Connect"
     /\ Cardinality(Failed(hc[p].attempts))
          = Cardinality(Failed(hc[q].attempts))) =>
      hc[p].slept = hc[q].slept

\* the kinds handleError returns
ErrorKinds ==
  {ErrClosed, ErrCanceled, ErrEOF, ErrTemp, ErrTimeout, ErrUnknown}

(* C33: handleError gives every error exactly one of the six kinds, in the
   precedence closed, canceled, end-of-file, temporary, timeout, unknown:
   a closed marker wins over everything, then canceled, then EOF; without
   a marker a network error is ErrTemp when it reports Temporary, else
   ErrTimeout when it reports Timeout, else ErrUnknown, and an error that
   is not a network error is ErrUnknown. ErrTimeout is given only to a
   network error that reports Timeout and not Temporary. *)
C33_HandleErrorClassifies ==
  last.op = "handleError" =>
    LET e == last.arg
        r == last.err
        closed == {"use of closed", "broken pipe"} \cap e.marks # {}
        canceled == "canceled" \in e.marks
        eof == "EOF" \in e.marks
        marked == closed \/ canceled \/ eof
    IN /\ r \in ErrorKinds
       /\ r = ErrClosed <=> closed
       /\ r = ErrCanceled <=> (~closed /\ canceled)
       /\ r = ErrEOF <=> (~closed /\ ~canceled /\ eof)
       /\ r = ErrTemp <=> (~marked /\ e.net /\ e.temporary)
       /\ r = ErrTimeout <=>
            (~marked /\ e.net /\ ~e.temporary /\ e.timeout)
       /\ (~marked /\ ~e.net) => r = ErrUnknown

\* a network error that reports both Temporary and Timeout has been
\* classified, with no marker in its text
C33_Witness ==
  /\ last.op = "handleError"
  /\ last.arg.marks = {} /\ last.arg.net
  /\ last.arg.temporary /\ last.arg.timeout
  /\ last.err = ErrTemp

\* the Connect calls that succeeded and whose two LocalConns both have had
\* no Close that returned
OpenPairs == {c \in ConnIds : c % 2 = 1 /\ closeDone \cap {c, c + 1} = {}}

(* C34: whenever the LocalContext mutex is free, queues holds the two
   endpoints of a connection both or neither, and Len() is twice the
   number of connections on which neither side has completed Close. *)
C34_LenCountsOpenPairs ==
  CtxFree =>
    /\ \A c \in ConnIds :
         conns[c].local \in DOMAIN queues
           <=> conns[c].remote \in DOMAIN queues
    /\ Len_queues = 2 * Cardinality(OpenPairs)

\* two connections were made, a Close has returned on one of them, and a
\* goroutine is between the two halves of a Close of the other
C34_Witness ==
  /\ CtxFree
  /\ Len(conns) = 4 /\ Len_queues = 2
  /\ \E p \in Procs : pc[p] = "closing" /\ parg[p].c \notin closeDone
                        /\ Peer(parg[p].c) \notin closeDone

\* C35: the goroutine that holds the LocalContext mutex is on its way to a
\* connQueue mutex only, and once every call in progress has run to its end
\* or to its wait and the LocalContext mutex is free, a goroutine still inside
\* a call is parked either in Pop on a queue that is open and empty or in
\* Listen on a quit channel that is still open.
C35_BlockedOnlyInPopOrListen ==
  /\ \A p \in Procs : lk.ctx = p => (lk.th[p].at = "Push" /\ pc[p] = "idle")
  /\ (Quiescent /\ CtxFree) =>
       \A p \in Procs :
         \/ pc[p] = "idle"
         \/ /\ pc[p] = "popWait"
            /\ ~cq[parg[p].c].isClosed
            /\ cq[parg[p].c].queue = <<>>
         \/ /\ pc[p] = "listenWait"
            /\ parg[p].ch \notin chClosed

\* the packets sent to the incoming LocalConn of callback i before fn began
EarlySent(i) ==
  LET c == accepted[i].conn
      n == IF accepted[i].begun THEN accepted[i].early ELSE Len(sent[c])
  IN SubSeq(sent[c], 1, n)

(* C36: a Send on the outgoing LocalConn made before the accept callback
   has begun, by a caller that has not closed its LocalConn, returns nil
   and appends its packet to the queue of the incoming LocalConn; and as
   long as no Close has reached that queue, the packets sent before the
   callback began are, in the order of their Sends, the first of what the
   incoming LocalConn has received followed by what it still holds. *)
C36_EarlySendsQueued ==
  /\ (last.op = "Send" /\ last.c % 2 = 1 /\ ~last.after
        /\ ~accepted[CallbackOf(Peer(last.c))].begun) =>
       (last.err = Nil /\ last.app)
  /\ \A i \in DOMAIN accepted :
       LET c == accepted[i].conn
           got == BodiesOf(recvd[c] \o cq[c].queue)
       IN ~cq[c].isClosed =>
            /\ Len(EarlySent(i)) <= Len(got)
            /\ EarlySent(i) = SubSeq(got, 1, Len(EarlySent(i)))

\* two different packets were sent before the callback began, and the
\* callback has then received the first while the second is still queued
C36_Witness ==
  \E i \in DOMAIN accepted :
    LET c == accepted[i].conn
    IN /\ accepted[i].begun /\ accepted[i].early = 2
       /\ sent[c][1] # sent[c][2]
       /\ Len(recvd[c]) = 1 /\ Len(cq[c].queue) = 1
       /\ ~cq[c].isClosed

\* LocalConn c belongs to a pair made by a Connect to an address that is not
\* registered any more
Unregistered(c) ==
  conns[IF c % 2 = 1 THEN Peer(c) ELSE c].local[1] \notin DOMAIN listening

(* C37: a call of LocalListener.Stop or of LocalContext.StopListening
   changes nothing of the connections: the entries of queues, the contents
   and the closed flags of the queues, the LocalConns and the goroutines
   parked in Pop are as before, and of the registry only the entry of the
   stopped address goes. On a pair whose address is no longer registered a
   Send still appends its packet to the open queue of the peer and returns
   nil, and a Receive still returns the oldest packet of its open queue. *)
C37_StopLeavesConnections ==
  [][/\ (nOps' = nOps + 1 /\ last'.op \in {"Stop", "StopListening"}) =>
          /\ queues' = queues /\ cq' = cq /\ conns' = conns
          /\ closeDone' = closeDone /\ pc' = pc
          /\ sent' = sent /\ recvd' = recvd
          /\ listening' =
               MapDel(listening, IF last'.op = "Stop" THEN lst[last'.a].addr
                                                      ELSE last'.a)
     /\ \A c \in ConnIds :
          (nOps' = nOps + 1 /\ last'.op = "Send" /\ last'.c = c
             /\ Unregistered(c) /\ SendTarget(c) \in DOMAIN queues
             /\ ~cq[Peer(c)].isClosed) =>
            /\ last'.err = Nil
            /\ cq'[Peer(c)].queue = Append(cq[Peer(c)].queue, last'.pkt)
     /\ \A c \in ConnIds :
          (last'.op = "Receive" /\ last'.c = c /\ pc' # pc
             /\ Unregistered(c) /\ ~cq[c].isClosed /\ cq[c].queue # <<>>) =>
            /\ last'.err = Nil
            /\ last'.pkt = Head(cq[c].queue)
            /\ cq'[c].queue = Tail(cq[c].queue)]_vars

\* Stop has returned on a listener through which a connection was made, the
\* connection is registered and a packet sent on it is in its queue
C37_Witness ==
  /\ last.op = "Stop" /\ listening = [x \in {} |-> NilFn]
  /\ Len_queues = 2
  /\ \E c \in ConnIds : Len(cq[c].queue) = 1 /\ ~cq[c].isClosed

\* C38: the address of every LocalListener whose Listening() reports true is
\* registered in the LocalContext; a Stop of another LocalListener, one that
\* is not listening, does not take that registration away.
C38_ListeningIsRegistered ==
  \A l \in Listeners :
    (lst[l].made /\ lst[l].listening) => IsListening(lst[l].addr)

(* C39: every call of LocalListener.Stop returns nil, whatever calls of
   Listen and Stop came before: it never closes a quit channel that is
   closed already, and it leaves the listener not listening and its address
   out of the registry. Every call of Listen, also after a Stop, makes a
   quit channel that is open, registers the address and sets listening. *)
C39_StopIsIdempotent ==
  /\ last.op = "Stop" =>
       /\ last.err = Nil
       /\ ~lst[last.a].listening
       /\ ~IsListening(lst[last.a].addr)
  /\ last.op = "ListenBegin" =>
       /\ lst[last.a].listening
       /\ IsListening(lst[last.a].addr)
       /\ lst[last.a].quit \notin chClosed

\* two Listen/Stop cycles have run on one LocalListener: the two Listen
\* calls wait on different channels and each Stop has closed the channel of
\* its cycle
C39_Witness ==
  /\ last.op = "Stop" /\ last.err = Nil
  /\ \E p \in Procs, q \in Procs :
       /\ pc[p] = "listenWait" /\ pc[q] = "listenWait"
       /\ parg[p].l = last.a /\ parg[q].l = last.a
       /\ parg[p].ch # parg[q].ch
       /\ {parg[p].ch, parg[q].ch} \subseteq chClosed
====
